---- MODULE Spec2Model ----
(***************************************************************************)
(* Flat-file record store of the Tsono landing-page server (server.js).    *)
(*                                                                         *)
(* The three submission handlers (POST /api/leads, /api/contact,           *)
(* /api/investors) share one shape:                                        *)
(*     const xs = readData(FILE);      synchronous, before any lock        *)
(*     xs.push(record);                                                    *)
(*     await writeData(FILE, xs);      lock, writeFileSync, release        *)
(*     res.json({success: true})       or the catch block: status 500      *)
(* A handler runs without interruption up to its first await, so a request *)
(* is modelled by the steps between its suspension points:                 *)
(*   Submit    request arrives; record built, readData, push, lock() called*)
(*   TryLock   one mkdir attempt of proper-lockfile on <file>.lock         *)
(*   WriteOk / WriteFail   fs.writeFileSync under the lock                 *)
(*   Release   the finally block's release() and the response that follows *)
(* The rmdir of release() and the continuation that sends the response are *)
(* one step: the continuation runs in the microtasks of the rmdir callback,*)
(* before any other callback of the event loop.                            *)
(*                                                                         *)
(* Of proper-lockfile the model keeps what writeData relies on: the lock   *)
(* is a directory created with mkdir, an attempt fails while it exists,    *)
(* retries: 3 allows three more attempts, release removes the directory.   *)
(* Stale-lock takeover (a lock not refreshed for 10 s) and a failing       *)
(* release are not modelled.  The submitted fields are opaque to the       *)
(* store, so one payload value stands for them.                            *)
(***************************************************************************)
EXTENDS Integers, Sequences, FiniteSets, Bags, TLC

\* ---- bounds of the model ------------------------------------------------
NumReqs == 2        \* requests handled during one process lifetime
MaxClock == 2       \* distinct values Date.now() takes during the run

\* ---- program constants --------------------------------------------------
MaxRetries == 3     \* lockfile.lock(file, { retries: { retries: 3, ... } })
RefCap == 100       \* analytics.referrers.slice(0, 100)
RetentionDays == 7  \* cutoff.setDate(cutoff.getDate() - 7)

\* ---- bounds of the analytics specifications ------------------------------
NumTrackers == 2    \* analytics operations pending at the same time
MaxOps == 3         \* analytics operations begun in a run
MaxDay == 9         \* days a run of RetentionSpec extends over

\* ---- bound of the dashboard specification -------------------------------------
MaxCalls == 3       \* requests of the admin page awaiting their response

\* ---- bound of the app simulator ----------------------------------------------
MaxTimers == 3      \* setTimeout callbacks of the simulator pending at a time

\* ---- constants of the app simulator ------------------------------------------
PanelMax == 2       \* Math.min(2, state.panelIndex + direction)
CounterMin == 2     \* Math.max(2, ...)
CounterMax == 50    \* Math.min(50, state.counterValue + delta)
CounterStart == 10  \* counterValue: 10
CountdownStart == 10 \* let timeLeft = 10

Reqs == 1..NumReqs
Names == {"Jo"}
NoFile == "none"

\* DATA_FILES: the collection files the submission handlers write.
Collections == {"leads", "contacts", "investors"}

RecordTypeCopied(c) == "lead"

\* The type discriminator each handler stores.
RecordType(c) ==
    CASE c = "leads" -> "lead"
      [] c = "contacts" -> "contact"
      [] c = "investors" -> "investor"

VARIABLES
    disk,       \* disk[c]: the JSON array held by the file of collection c
    torn,       \* torn[c]: the file holds a truncated text (invalid JSON)
    lockdir,    \* lockdir[p]: the lock directory <p>.lock exists
    now,        \* the value of Date.now() at the latest arrival
    pc,         \* pc[r]: position of request r in its handler
    coll,       \* coll[r]: the collection request r submits to
    rec,        \* rec[r]: the record the handler built
    snap,       \* snap[r]: the handler's local array (readData result + push),
                \* empty once the handler has returned
    attempts,   \* attempts[r]: failed lock attempts of r's pending lock() call
    err,        \* err[r]: the error writeData threw, "none" if none
    status,     \* status[r]: HTTP status of the response, 0 before it is sent
    body,       \* body[r]: req.body of a form submission, NoBody otherwise
    fcond,      \* fcond[f]: data file f is "ok", "missing" or "unreadable"
    phase,      \* "boot" before the module-level initialisation ran, then "running"
    adminColl,  \* collection of the latest admin listing, "none" when the file
                \* was written since (or no listing was made)
    adminResp,  \* body of that listing's response
    adminSeen,  \* listings of adminColl answered since its last write (0, 1, 2 = more)
    analytics,  \* the JSON value held by analytics.json
    alock,      \* the lock directory analytics.json.lock exists
    today,      \* the day getDateKey() returns
    clock,      \* analytics operations begun so far (their timestamps)
    viewsDone,  \* trackPageView calls whose write completed
    refsDone,   \* of these, the calls that carried an external referrer
    tpc,        \* tpc[t]: position of analytics operation slot t
    tkind,      \* tkind[t]: "view" (trackPageView) or "event" (POST /api/analytics/event)
    tdoc,       \* tdoc[t]: the handler's local analytics object
    text,       \* text[t]: the page view of t carries an external referrer
    tattempts,  \* tattempts[t]: failed lock attempts of t's pending lock() call
    terr,       \* terr[t]: the error writeData threw
    tstatus,    \* tstatus[t]: status of the response to t's request, 0 if none
    isProduction, \* IS_PRODUCTION: NODE_ENV is 'production'
    adminKey,   \* process.env.ADMIN_KEY, NoKey when unset or empty
    areq,       \* the latest request to an admin endpoint: endpoint and x-admin-key
    ares,       \* the response to it: status and the stored data it carries
    csrfValid,  \* csrfValid[kind][i]: the request of slot i carries a valid CSRF token
    form,       \* the form of the page: "lead", "contact" or "investor"
    fpc,        \* position of the form's submit handler: "idle", "token", "posting"
    freq,       \* the request the handler's POST is, 0 before the first
    submitBtn,  \* submitBtn.disabled and the button's label
    originalText, \* originalText (originalBtnText) of the latest submit event
    formShown,  \* the form is displayed
    successShown, \* the success view is displayed
    storedKey,  \* sessionStorage.getItem('adminKey'), NoKey when absent
    storedBy,   \* how storedKey got there: "load" (kept by the tab), "login", "none"
    overlayShown, \* the login overlay is displayed
    dashShown,  \* the dashboard is displayed
    loginBusy,  \* the login button is disabled (validation pending)
    calls,      \* the bag of the page's requests awaiting their response
    dlast,      \* the latest response the page handled: kind and key of its
                \* request, status
    dtick,      \* flips with every response handled
    \* -- the app simulator (second part of public/js/admin.js)
    currentScreen, \* state.currentScreen, the screen carrying class active
    panelIndex,    \* state.panelIndex
    activeRide,    \* state.activeRide
    counterValue,  \* state.counterValue
    autoplay,      \* state.autoplay
    fabVisible,    \* signal-fab carries class visible
    ridePanel,     \* ride-panel is displayed
    bottomPanel,   \* bottom-panel is displayed
    notifVisible,  \* signal-notification carries class visible
    countdownTime, \* the number shown in countdown-time
    timeouts,      \* the bag of pending setTimeout callbacks, by kind
    intervals,     \* timeLeft of every running countdown, in creation order
    handleRuns,    \* the interval countdownInterval names is running (it
                   \* is then the last of intervals)
    sinceSignal,   \* countdown ticks since the latest simulateSignal
    cause,         \* what ran last: "load", "user", "timer" or "tick"
    quiet          \* resetDemo has run and no user action since

storeVars == <<disk, torn, lockdir, now, pc, coll, rec, snap, attempts, err, status, body>>

fsVars == <<fcond, phase>>

adminVars == <<adminColl, adminResp, adminSeen>>

trackVars == <<analytics, alock, today, clock, viewsDone, refsDone,
               tpc, tkind, tdoc, text, tattempts, terr, tstatus>>

frontVars == <<isProduction, adminKey, areq, ares, csrfValid>>

formVars == <<form, fpc, freq, submitBtn, originalText, formShown, successShown>>

dashVars == <<storedKey, storedBy, overlayShown, dashShown, loginBusy, calls, dlast, dtick>>

simVars == <<currentScreen, panelIndex, activeRide, counterValue, autoplay,
             fabVisible, ridePanel, bottomPanel, notifVisible, countdownTime,
             timeouts, intervals, handleRuns, sinceSignal, cause, quiet>>

clientVars == <<formVars, dashVars, simVars>>

webVars == <<frontVars, clientVars>>

vars == <<storeVars, fsVars, adminVars, trackVars, webVars>>

NoRec == [id |-> 0, type |-> "none", name |-> "none", req |-> 0]

\* A string is a sequence of characters; Missing stands for undefined.
Missing == <<"undefined">>

\* req.body: the fields the three submission handlers destructure.
NoBody == [name |-> Missing, email |-> Missing, interest |-> Missing, subject |-> Missing,
           message |-> Missing, company |-> Missing, type |-> Missing]

Range(s) == {s[i] : i \in DOMAIN s}

\* ---- helpers of server.js ------------------------------------------------

readDataNoCatch(c) == disk[c]

\* readData: JSON.parse of the file, [] when reading (file missing or
\* unreadable) or parsing (invalid JSON) throws.
readData(c) == IF torn[c] \/ fcond[c] # "ok" THEN <<>> ELSE disk[c]

\* The record literal of a handler: id: Date.now(), type, the sanitized
\* fields.  req tags the record with the request that built it; it is an
\* auxiliary field used to tell the records of two requests apart.
MakeRecord(r, c, n, t) == [id |-> t, type |-> RecordType(c), name |-> n, req |-> r]

PushSkipped(arr, x) == arr

\* xs.push(record)
Push(arr, x) == Append(arr, x)

LockPathGlobal(c) == "leads"

\* lockfile.lock(file): the lock directory is derived from the file's path.
LockPath(c) == c

MkdirIgnoresExisting(c) == TRUE

\* fs.mkdir of the lock directory succeeds iff it does not exist yet.
MkdirSucceeds(c) == ~lockdir[LockPath(c)]

RetriesExhaustedLate(n) == n > MaxRetries + 1

\* retry.operation({retries: 3}): after the first attempt at most 3 more.
RetriesExhausted(n) == n > MaxRetries

ReleaseOnlyOnSuccess(e) == e = "none"

\* finally { if (release) await release(); }: runs on every exit path of a
\* call that acquired the lock.
ReleaseRuns(e) == TRUE

StatusAlwaysOk(e) == 200

\* res.json(...) after writeData returned, res.status(500) in the catch block.
ResponseStatus(e) == IF e = "none" THEN 200 ELSE 500

\* ---- the analytics document ------------------------------------------------

Trackers == 1..NumTrackers
Days == 1..MaxDay

\* DATA_FILES: all four data files.
DataFiles == Collections \cup {"analytics"}

\* The analytics value as a JavaScript object: kind tells an array from a
\* plain object; pageViews[d] is the count of the tracked page on day d
\* (0: no entry), events[d] the events of day d (<<>>: no entry).
NoViews == [d \in Days |-> 0]
NoEvents == [d \in Days |-> <<>>]

\* JSON.parse('[]'): what the server writes into a missing analytics.json.
ArrayDoc == [kind |-> "array", pageViews |-> NoViews, referrers |-> <<>>, events |-> NoEvents]

\* JSON.parse('{}')
ObjectDoc == [kind |-> "object", pageViews |-> NoViews, referrers |-> <<>>, events |-> NoEvents]

\* JSON.parse(JSON.stringify(doc)): what a later readData gets back.  The
\* named properties set on an array are not serialised.
Stringify(doc) == IF doc.kind = "array" THEN ArrayDoc ELSE doc

\* Referer headers: none, a page of the site itself, an external page.
NoReferer == "none"
Referers == {NoReferer, "https://tsono.app/about", "https://news.example/a"}

\* referer && !referer.includes('tsono.app')
IsExternal(ref) == ref # NoReferer /\ ref # "https://tsono.app/about"

Take(s, n) == IF Len(s) <= n THEN s ELSE SubSeq(s, 1, n)

\* trackPageView between readData and writeData: count the view, put an
\* external referrer in front of the list and keep the first 100.
CountView(doc, d, ref, ts) ==
    [doc EXCEPT !.pageViews[d] = @ + 1,
                !.referrers = IF IsExternal(ref)
                              THEN Take(<<[url |-> ref, ts |-> ts]>> \o @, RefCap)
                              ELSE @]

\* Keep only last 7 days of events: delete the keys < cutoffKey, the cutoff
\* being today minus 7 days.
Prune(ev, d) == [k \in Days |-> IF k < d - RetentionDays THEN <<>> ELSE ev[k]]

\* The event handler between readData and writeData: push the event under
\* today's key, then prune.
AddEvent(doc, d, e, ts) ==
    [doc EXCEPT !.events = Prune([@ EXCEPT ![d] = Append(@, [event |-> e, ts |-> ts])], d)]

\* ---- initial state: after startup with no data files present -----------
InitStore ==
    /\ disk = [c \in Collections |-> <<>>]
    /\ torn = [c \in Collections |-> FALSE]
    /\ lockdir = [c \in Collections |-> FALSE]
    /\ now = 1
    /\ pc = [r \in Reqs |-> "idle"]
    /\ coll = [r \in Reqs |-> NoFile]
    /\ rec = [r \in Reqs |-> NoRec]
    /\ snap = [r \in Reqs |-> <<>>]
    /\ attempts = [r \in Reqs |-> 0]
    /\ err = [r \in Reqs |-> "none"]
    /\ status = [r \in Reqs |-> 0]
    /\ body = [r \in Reqs |-> NoBody]

NoResp == [success |-> FALSE, count |-> 0, data |-> <<>>]

InitAdmin ==
    /\ adminColl = NoFile
    /\ adminResp = NoResp
    /\ adminSeen = 0

InitTrack ==
    /\ alock = FALSE
    /\ today = 1
    /\ clock = 0
    /\ viewsDone = 0
    /\ refsDone = 0
    /\ tpc = [t \in Trackers |-> "idle"]
    /\ tkind = [t \in Trackers |-> "none"]
    /\ tdoc = [t \in Trackers |-> ArrayDoc]
    /\ text = [t \in Trackers |-> FALSE]
    /\ tattempts = [t \in Trackers |-> 0]
    /\ terr = [t \in Trackers |-> "none"]
    /\ tstatus = [t \in Trackers |-> 0]

\* The HTTP front: a development server without ADMIN_KEY, no admin request
\* made yet, clients that send the CSRF token they fetched.
NoKey == "none"

NoHeader == "absent"

NoReq == [endpoint |-> "none", header |-> NoHeader]

\* ---- the client forms ----------------------------------------------------------
\* The submit handlers of the lead, contact and investor forms are the same
\* code up to the labels and the endpoint.  The page's markup is not part of
\* the sources: the submit event is taken to come from the form's enabled
\* submit button (a browser does not submit a form through a disabled one).

Forms == {"lead", "contact", "investor"}

\* The label the handler sets while the attempt runs.
BusyLabel(f) == IF f = "lead" THEN "Submitting..." ELSE "Sending..."

\* The label the page gives the button.
SubmitLabel == "Send"

FormLoaded ==
    /\ fpc = "idle"
    /\ freq = 0
    /\ submitBtn = [disabled |-> FALSE, text |-> SubmitLabel]
    /\ originalText = ""
    /\ formShown = TRUE
    /\ successShown = FALSE

InitForm == form = "lead" /\ FormLoaded

\* ---- the admin dashboard page: state ---------------------------------------------

\* The page after init() on a browser tab with an empty sessionStorage.
InitDash ==
    /\ storedKey = NoKey
    /\ storedBy = "none"
    /\ overlayShown = TRUE
    /\ dashShown = FALSE
    /\ loginBusy = FALSE
    /\ calls = EmptyBag
    /\ dlast = [kind |-> "none", key |-> NoKey, status |-> 0]
    /\ dtick = FALSE

\* ---- the app simulator: state ------------------------------------------------

Screens == {"splash", "login", "dashboard", "create-ride", "ride-created", "join-ride"}

\* The state object and the page as its markup shows it (splash screen active,
\* signal button, ride panel and notification hidden, bottom panel shown),
\* before checkUrlParams() and init() have run.  Fields no modelled handler
\* reads (ride, signalQueue, fabOpen, panelExpanded, darkMode, selectedRider)
\* are left out.
state ==
    /\ currentScreen = "splash"
    /\ panelIndex = 0
    /\ activeRide = FALSE
    /\ counterValue = CounterStart
    /\ fabVisible = FALSE
    /\ ridePanel = FALSE
    /\ bottomPanel = TRUE
    /\ notifVisible = FALSE
    /\ countdownTime = CountdownStart
    /\ intervals = <<>>
    /\ handleRuns = FALSE
    /\ sinceSignal = 0
    /\ cause = "load"
    /\ quiet = FALSE

\* The simulator page loaded without URL parameters: init() has started the
\* splash timer.
InitSim ==
    /\ state
    /\ autoplay = TRUE
    /\ timeouts = SetToBag({"splash"})

InitClient == InitForm /\ InitDash /\ InitSim

\* A response that carries a message and no stored data.
Message(s) == [status |-> s, kind |-> "message", data |-> <<>>]

NoResponse == Message(0)

\* Every request carries the token of GET /api/csrf-token.
AllValid == [form |-> [r \in Reqs |-> TRUE], event |-> [t \in Trackers |-> TRUE]]

InitFront ==
    /\ isProduction = FALSE
    /\ adminKey = NoKey
    /\ areq = NoReq
    /\ ares = NoResponse
    /\ csrfValid = AllValid

InitWeb == InitFront /\ InitClient

Init ==
    /\ InitStore
    /\ InitAdmin
    /\ InitTrack
    /\ InitWeb
    /\ fcond = [f \in DataFiles |-> "ok"]
    /\ phase = "running"
    /\ analytics = ArrayDoc

\* ---- actions --------------------------------------------------------------

\* A valid submission arrives, elapsed milliseconds after the previous one
\* (requests are numbered in order of arrival): the handler builds the
\* record with id Date.now(), reads the collection, pushes the record and
\* calls writeData, which suspends in lockfile.lock.
Submit(r, c, n, elapsed) ==
    /\ pc[r] = "idle"
    /\ \A q \in Reqs : q < r => pc[q] # "idle"
    /\ now + elapsed <= MaxClock
    /\ now' = now + elapsed
    /\ pc' = [pc EXCEPT ![r] = "locking"]
    /\ coll' = [coll EXCEPT ![r] = c]
    /\ rec' = [rec EXCEPT ![r] = MakeRecord(r, c, n, now')]
    /\ snap' = [snap EXCEPT ![r] = Push(readData(c), MakeRecord(r, c, n, now'))]
    /\ UNCHANGED <<disk, torn, lockdir, attempts, err, status>>
    /\ UNCHANGED <<body, fsVars, adminVars, trackVars, webVars>>

\* One lock attempt of writeData.  On success the lock directory exists and
\* the call goes on to write.  On failure the attempt is retried, or, with
\* the retries used up, lock() rejects: release is undefined, the finally
\* block does nothing and the handler's catch block answers 500.
TryLock(r) ==
    /\ pc[r] = "locking"
    /\ IF MkdirSucceeds(coll[r])
       THEN /\ lockdir' = [lockdir EXCEPT ![LockPath(coll[r])] = TRUE]
            /\ pc' = [pc EXCEPT ![r] = "locked"]
            /\ attempts' = [attempts EXCEPT ![r] = 0]
            /\ UNCHANGED <<snap, err, status>>
       ELSE IF RetriesExhausted(attempts[r] + 1)
            THEN /\ pc' = [pc EXCEPT ![r] = "failed"]
                 /\ attempts' = [attempts EXCEPT ![r] = 0]
                 /\ snap' = [snap EXCEPT ![r] = <<>>]
                 /\ err' = [err EXCEPT ![r] = "ELOCKED"]
                 /\ status' = [status EXCEPT ![r] = ResponseStatus("ELOCKED")]
                 /\ UNCHANGED lockdir
            ELSE /\ attempts' = [attempts EXCEPT ![r] = @ + 1]
                 /\ UNCHANGED <<lockdir, pc, snap, err, status>>
    /\ UNCHANGED <<disk, torn, now, coll, rec>>
    /\ UNCHANGED <<body, fsVars, adminVars, trackVars, webVars>>

\* A writeFileSync call on the file of c ends the run of listings of c that
\* had no write between them.
ForgetListing(c) ==
    IF adminColl = c
    THEN adminColl' = NoFile /\ adminResp' = NoResp /\ adminSeen' = 0
    ELSE UNCHANGED adminVars

\* fs.writeFileSync(file, JSON.stringify(data)) succeeds: the file holds the
\* caller's array.
WriteOk(r) ==
    /\ pc[r] = "locked"
    /\ disk' = [disk EXCEPT ![coll[r]] = snap[r]]
    /\ torn' = [torn EXCEPT ![coll[r]] = FALSE]
    /\ pc' = [pc EXCEPT ![r] = "releasing"]
    /\ ForgetListing(coll[r])
    /\ UNCHANGED <<lockdir, now, coll, rec, snap, attempts, err, status>>
    /\ UNCHANGED <<body, fsVars, trackVars, webVars>>

\* fs.writeFileSync throws.  Either the open failed and the file is as it
\* was (truncated = FALSE), or the file was opened with flag 'w' and the
\* write failed, leaving a truncated text that is not valid JSON.
WriteFail(r, truncated) ==
    /\ pc[r] = "locked"
    /\ IF truncated
       THEN /\ disk' = [disk EXCEPT ![coll[r]] = <<>>]
            /\ torn' = [torn EXCEPT ![coll[r]] = TRUE]
       ELSE UNCHANGED <<disk, torn>>
    /\ err' = [err EXCEPT ![r] = "EIO"]
    /\ pc' = [pc EXCEPT ![r] = "releasing"]
    /\ ForgetListing(coll[r])
    /\ UNCHANGED <<lockdir, now, coll, rec, snap, attempts, status>>
    /\ UNCHANGED <<body, fsVars, trackVars, webVars>>

\* The finally block releases the lock, writeData returns or rethrows, and
\* the handler answers.
Release(r) ==
    /\ pc[r] = "releasing"
    /\ IF ReleaseRuns(err[r])
       THEN lockdir' = [lockdir EXCEPT ![LockPath(coll[r])] = FALSE]
       ELSE UNCHANGED lockdir
    /\ pc' = [pc EXCEPT ![r] = IF err[r] = "none" THEN "ok" ELSE "failed"]
    /\ status' = [status EXCEPT ![r] = ResponseStatus(err[r])]
    /\ snap' = [snap EXCEPT ![r] = <<>>]
    /\ UNCHANGED <<disk, torn, now, coll, rec, attempts, err>>
    /\ UNCHANGED <<body, fsVars, adminVars, trackVars, webVars>>

Next ==
    \/ \E r \in Reqs, c \in Collections, n \in Names, e \in 0..1 : Submit(r, c, n, e)
    \/ \E r \in Reqs : TryLock(r)
    \/ \E r \in Reqs : WriteOk(r)
    \/ \E r \in Reqs, t \in BOOLEAN : WriteFail(r, t)
    \/ \E r \in Reqs : Release(r)

Spec == Init /\ [][Next]_vars

\* A callback of a pending request: a lock attempt, the write that follows
\* the lock, the release.
Callback ==
    \E r \in Reqs :
        \/ TryLock(r)
        \/ WriteOk(r)
        \/ \E t \in BOOLEAN : WriteFail(r, t)
        \/ Release(r)

\* The event loop does not stop while callbacks are pending (retry timers
\* fire, file system operations complete).
FairSpec == Spec /\ WF_vars(Callback)

\* ---- admin listings ----------------------------------------------------------

\* res.json({ success: true, count: leads.length, data: leads })
ListingResponse(data) == [success |-> TRUE, count |-> Len(data), data |-> data]

AdminListRepairs(c) ==
    /\ phase = "running"
    /\ adminResp' = ListingResponse(readData(c))
    /\ adminSeen' = IF adminColl = c THEN 2 ELSE 1
    /\ adminColl' = c
    /\ torn' = [torn EXCEPT ![c] = FALSE]
    /\ UNCHANGED <<disk, lockdir, now, pc, coll, rec, snap, attempts, err, status>>
    /\ UNCHANGED <<body, fsVars, trackVars, webVars>>

AdminListSeesPending(c) ==
    /\ phase = "running"
    /\ adminResp' = ListingResponse(
           IF \E r \in Reqs : pc[r] = "locking" /\ coll[r] = c
           THEN snap[CHOOSE r \in Reqs : pc[r] = "locking" /\ coll[r] = c]
           ELSE readData(c))
    /\ adminSeen' = IF adminColl = c THEN 2 ELSE 1
    /\ adminColl' = c
    /\ UNCHANGED <<storeVars, fsVars, trackVars, webVars>>

AdminListWaitsForLock(c) ==
    /\ phase = "running"
    /\ ~lockdir[LockPath(c)]
    /\ adminResp' = ListingResponse(readData(c))
    /\ adminSeen' = IF adminColl = c THEN 2 ELSE 1
    /\ adminColl' = c
    /\ UNCHANGED <<storeVars, fsVars, trackVars, webVars>>

\* GET /api/leads, /api/contacts, /api/investors of an authorised admin:
\* readData and the response, in one synchronous handler.
AdminList(c) ==
    /\ phase = "running"
    /\ adminResp' = ListingResponse(readData(c))
    /\ adminSeen' = IF adminColl = c THEN 2 ELSE 1
    /\ adminColl' = c
    /\ UNCHANGED <<storeVars, fsVars, trackVars, webVars>>

\* Submissions and admin listings side by side.
AdminNext ==
    \/ \E r \in Reqs, c \in Collections, n \in Names, e \in 0..1 : Submit(r, c, n, e)
    \/ \E r \in Reqs : TryLock(r)
    \/ \E r \in Reqs : WriteOk(r)
    \/ \E r \in Reqs, t \in BOOLEAN : WriteFail(r, t)
    \/ \E r \in Reqs : Release(r)
    \/ \E c \in Collections : AdminList(c)

AdminSpec == Init /\ [][AdminNext]_vars

\* Listings while submissions arriving in the same millisecond hold the locks.
GateNext ==
    \/ \E r \in Reqs, c \in Collections, n \in Names : Submit(r, c, n, 0)
    \/ \E r \in Reqs : TryLock(r)
    \/ \E r \in Reqs : WriteOk(r)
    \/ \E r \in Reqs, t \in BOOLEAN : WriteFail(r, t)
    \/ \E r \in Reqs : Release(r)
    \/ \E c \in Collections : AdminList(c)

GateSpec == Init /\ [][GateNext]_vars

\* ---- listings of damaged files ------------------------------------------------

\* A record persisted by an earlier run of the server.
OldRecord(c) == MakeRecord(1, c, "Jo", 1)

\* The data directory as the environment may have left it while the server
\* runs: a collection file is intact (empty or not), holds a text that is
\* not valid JSON, was deleted, or cannot be read.
FileStates ==
    /\ fcond \in [DataFiles -> {"ok", "missing", "unreadable"}]
    /\ torn \in [Collections -> BOOLEAN]
    /\ disk \in [Collections -> {<<>>} \cup {<<OldRecord(c)>> : c \in Collections}]
    /\ \A c \in Collections :
           /\ disk[c] \in {<<>>, <<OldRecord(c)>>}
           /\ torn[c] => (fcond[c] = "ok" /\ disk[c] = <<>>)
           /\ fcond[c] = "missing" => disk[c] = <<>>

InitRead ==
    /\ FileStates
    /\ fcond["analytics"] = "ok"
    /\ lockdir = [c \in Collections |-> FALSE]
    /\ now = 1
    /\ pc = [r \in Reqs |-> "idle"]
    /\ coll = [r \in Reqs |-> NoFile]
    /\ rec = [r \in Reqs |-> NoRec]
    /\ snap = [r \in Reqs |-> <<>>]
    /\ attempts = [r \in Reqs |-> 0]
    /\ err = [r \in Reqs |-> "none"]
    /\ status = [r \in Reqs |-> 0]
    /\ body = [r \in Reqs |-> NoBody]
    /\ InitAdmin
    /\ InitTrack
    /\ InitWeb
    /\ phase = "running"
    /\ analytics = ArrayDoc

ReadNext == \E c \in Collections : AdminList(c)

ReadSpec == InitRead /\ [][ReadNext]_vars

\* ---- startup ----------------------------------------------------------------

\* The analytics values a file present at startup may hold.
OldDocs == {ArrayDoc, ObjectDoc, [ObjectDoc EXCEPT !.pageViews[1] = 1]}

\* Before the module-level code of server.js has run: any of the data files
\* may be present already.
InitBoot ==
    /\ FileStates
    /\ analytics \in OldDocs
    /\ fcond["analytics"] = "missing" => analytics = ArrayDoc
    /\ lockdir = [c \in Collections |-> FALSE]
    /\ now = 1
    /\ pc = [r \in Reqs |-> "idle"]
    /\ coll = [r \in Reqs |-> NoFile]
    /\ rec = [r \in Reqs |-> NoRec]
    /\ snap = [r \in Reqs |-> <<>>]
    /\ attempts = [r \in Reqs |-> 0]
    /\ err = [r \in Reqs |-> "none"]
    /\ status = [r \in Reqs |-> 0]
    /\ body = [r \in Reqs |-> NoBody]
    /\ InitAdmin
    /\ InitTrack
    /\ InitWeb
    /\ phase = "boot"

\* Object.values(DATA_FILES).forEach(file => { if (!fs.existsSync(file))
\* fs.writeFileSync(file, '[]') }): every missing file, analytics.json
\* included, is created holding '[]'.
Startup ==
    /\ phase = "boot"
    /\ phase' = "running"
    /\ fcond' = [f \in DataFiles |-> IF fcond[f] = "missing" THEN "ok" ELSE fcond[f]]
    /\ disk' = [c \in Collections |-> IF fcond[c] = "missing" THEN <<>> ELSE disk[c]]
    /\ torn' = [c \in Collections |-> IF fcond[c] = "missing" THEN FALSE ELSE torn[c]]
    /\ analytics' = IF fcond["analytics"] = "missing" THEN ArrayDoc ELSE analytics
    /\ UNCHANGED <<lockdir, now, pc, coll, rec, snap, attempts, err, status, body>>
    /\ UNCHANGED webVars
    /\ UNCHANGED <<adminVars, alock, today, clock, viewsDone, refsDone,
                   tpc, tkind, tdoc, text, tattempts, terr, tstatus>>

StartupNext == Startup

StartupSpec == InitBoot /\ [][StartupNext]_vars

\* ---- analytics tracking -------------------------------------------------------
\* trackPageView and POST /api/analytics/event have the shape of the
\* submission handlers: readData and the update run synchronously, then
\* writeData locks, writes and releases.  A truncated analytics.json is read
\* back as [] like a file holding '[]', so a failed write that truncated the
\* file leaves ArrayDoc.

\* readData(DATA_FILES.analytics)
readAnalytics == IF fcond["analytics"] # "ok" THEN ArrayDoc ELSE analytics

AllIdle == \A t \in Trackers : tpc[t] = "idle"

\* What express.static and the 404 handler answer to a page request.
PageStatuses == {200, 404}

\* The analytics middleware calls trackPageView for a page request, which
\* suspends in lockfile.lock, and passes the request on with next(): the page
\* is answered while the tracking is pending.
TrackPageView(t, ref) ==
    /\ phase = "running"
    /\ tpc[t] = "idle"
    /\ clock' = clock + 1
    /\ tpc' = [tpc EXCEPT ![t] = "locking"]
    /\ tkind' = [tkind EXCEPT ![t] = "view"]
    /\ text' = [text EXCEPT ![t] = IsExternal(ref)]
    /\ tdoc' = [tdoc EXCEPT ![t] = CountView(readAnalytics, today, ref, clock')]
    /\ terr' = [terr EXCEPT ![t] = "none"]
    /\ \E st \in PageStatuses : tstatus' = [tstatus EXCEPT ![t] = st]
    /\ UNCHANGED <<analytics, alock, today, viewsDone, refsDone, tattempts>>
    /\ UNCHANGED <<storeVars, fsVars, adminVars, webVars>>

\* POST /api/analytics/event: 400 without an event name, else the event is
\* pushed, old days are pruned and the handler suspends in lockfile.lock.
TrackEvent(t, e) ==
    /\ phase = "running"
    /\ tpc[t] = "idle"
    /\ IF e = ""
       THEN /\ tstatus' = [tstatus EXCEPT ![t] = 400]
            /\ UNCHANGED <<clock, tpc, tkind, tdoc, terr>>
       ELSE /\ clock' = clock + 1
            /\ tpc' = [tpc EXCEPT ![t] = "locking"]
            /\ tkind' = [tkind EXCEPT ![t] = "event"]
            /\ tdoc' = [tdoc EXCEPT ![t] = AddEvent(readAnalytics, today, e, clock')]
            /\ terr' = [terr EXCEPT ![t] = "none"]
            /\ tstatus' = [tstatus EXCEPT ![t] = 0]
    /\ UNCHANGED <<analytics, alock, today, viewsDone, refsDone, text, tattempts>>
    /\ UNCHANGED <<storeVars, fsVars, adminVars, webVars>>

FinishedLoud(t, e) ==
    /\ tpc' = [tpc EXCEPT ![t] = "idle"]
    /\ tstatus' = [tstatus EXCEPT ![t] = ResponseStatus(e)]
    /\ tkind' = [tkind EXCEPT ![t] = "none"]
    /\ text' = [text EXCEPT ![t] = FALSE]
    /\ tdoc' = [tdoc EXCEPT ![t] = ArrayDoc]
    /\ tattempts' = [tattempts EXCEPT ![t] = 0]
    /\ terr' = [terr EXCEPT ![t] = "none"]

\* The handler of t is over: trackPageView swallows an error and the page's
\* response stays what it was, the event endpoint answers 200 or 500.
Finished(t, e) ==
    /\ tpc' = [tpc EXCEPT ![t] = "idle"]
    /\ tstatus' = [tstatus EXCEPT ![t] = IF tkind[t] = "event" THEN ResponseStatus(e) ELSE @]
    /\ tkind' = [tkind EXCEPT ![t] = "none"]
    /\ text' = [text EXCEPT ![t] = FALSE]
    /\ tdoc' = [tdoc EXCEPT ![t] = ArrayDoc]
    /\ tattempts' = [tattempts EXCEPT ![t] = 0]
    /\ terr' = [terr EXCEPT ![t] = "none"]

\* One lock attempt of writeData on analytics.json.
TrackTryLock(t) ==
    /\ tpc[t] = "locking"
    /\ IF ~alock
       THEN /\ alock' = TRUE
            /\ tpc' = [tpc EXCEPT ![t] = "locked"]
            /\ tattempts' = [tattempts EXCEPT ![t] = 0]
            /\ UNCHANGED <<tkind, tdoc, text, terr, tstatus>>
       ELSE IF RetriesExhausted(tattempts[t] + 1)
            THEN Finished(t, "ELOCKED") /\ UNCHANGED alock
            ELSE /\ tattempts' = [tattempts EXCEPT ![t] = @ + 1]
                 /\ UNCHANGED <<alock, tpc, tkind, tdoc, text, terr, tstatus>>
    /\ UNCHANGED <<analytics, today, clock, viewsDone, refsDone>>
    /\ UNCHANGED <<storeVars, fsVars, adminVars, webVars>>

\* fs.writeFileSync(file, JSON.stringify(analytics)) succeeds.
TrackWriteOk(t) ==
    /\ tpc[t] = "locked"
    /\ analytics' = Stringify(tdoc[t])
    /\ tpc' = [tpc EXCEPT ![t] = "releasing"]
    /\ UNCHANGED <<alock, today, clock, viewsDone, refsDone, tkind, tdoc, text,
                   tattempts, terr, tstatus>>
    /\ UNCHANGED <<storeVars, fsVars, adminVars, webVars>>

\* fs.writeFileSync throws, before or after it truncated the file.
TrackWriteFail(t, truncated) ==
    /\ tpc[t] = "locked"
    /\ analytics' = IF truncated THEN ArrayDoc ELSE analytics
    /\ terr' = [terr EXCEPT ![t] = "EIO"]
    /\ tpc' = [tpc EXCEPT ![t] = "releasing"]
    /\ UNCHANGED <<alock, today, clock, viewsDone, refsDone, tkind, tdoc, text,
                   tattempts, tstatus>>
    /\ UNCHANGED <<storeVars, fsVars, adminVars, webVars>>

\* The finally block releases the lock and the handler ends.
TrackRelease(t) ==
    /\ tpc[t] = "releasing"
    /\ alock' = IF ReleaseRuns(terr[t]) THEN FALSE ELSE alock
    /\ Finished(t, terr[t])
    /\ viewsDone' = IF tkind[t] = "view" /\ terr[t] = "none" THEN viewsDone + 1 ELSE viewsDone
    /\ refsDone' = IF tkind[t] = "view" /\ terr[t] = "none" /\ text[t]
                   THEN refsDone + 1 ELSE refsDone
    /\ UNCHANGED <<analytics, today, clock>>
    /\ UNCHANGED <<storeVars, fsVars, adminVars, webVars>>

\* Midnight (UTC) passes.
DayTick ==
    /\ today < MaxDay
    /\ today' = today + 1
    /\ UNCHANGED <<analytics, alock, clock, viewsDone, refsDone,
                   tpc, tkind, tdoc, text, tattempts, terr, tstatus>>
    /\ UNCHANGED <<storeVars, fsVars, adminVars, webVars>>

\* Page requests alone, their tracking handled concurrently.
PageNext ==
    \/ \E t \in Trackers : clock < MaxOps /\ TrackPageView(t, NoReferer)
    \/ \E t \in Trackers : TrackTryLock(t)
    \/ \E t \in Trackers : TrackWriteOk(t)
    \/ \E t \in Trackers, b \in BOOLEAN : TrackWriteFail(t, b)
    \/ \E t \in Trackers : TrackRelease(t)

PageSpec == Init /\ [][PageNext]_vars

\* Page views and events of one day, handled concurrently, on the analytics
\* file as the server initialised it.
AnalyticsNext ==
    \/ \E t \in Trackers, ref \in Referers : clock < MaxOps /\ TrackPageView(t, ref)
    \/ \E t \in Trackers, e \in {"", "click"} : clock < MaxOps /\ TrackEvent(t, e)
    \/ \E t \in Trackers : TrackTryLock(t)
    \/ \E t \in Trackers : TrackWriteOk(t)
    \/ \E t \in Trackers, b \in BOOLEAN : TrackWriteFail(t, b)
    \/ \E t \in Trackers : TrackRelease(t)

AnalyticsSpec == Init /\ [][AnalyticsNext]_vars

\* analytics.json was present at startup, holding {}.
InitObject ==
    /\ InitStore
    /\ InitAdmin
    /\ InitTrack
    /\ InitWeb
    /\ fcond = [f \in DataFiles |-> "ok"]
    /\ phase = "running"
    /\ analytics = ObjectDoc

\* Analytics operations handled one after the other over several days.
RetentionNext ==
    \/ AllIdle /\ clock < MaxOps /\ TrackPageView(1, NoReferer)
    \/ AllIdle /\ clock < MaxOps /\ TrackEvent(1, "click")
    \/ TrackTryLock(1)
    \/ TrackWriteOk(1)
    \/ \E b \in BOOLEAN : TrackWriteFail(1, b)
    \/ TrackRelease(1)
    \/ AllIdle /\ DayTick

RetentionSpec == InitObject /\ [][RetentionNext]_vars

\* ---- POST /api/leads ---------------------------------------------------------

IsSpace(c) == c \in {" ", "\t", "\n"}

\* .replace(/<[^>]*>/g, ''): the leftmost '<' that is followed by a '>' is
\* removed together with everything up to the first '>' after it, and the
\* search goes on behind that '>'.
RECURSIVE StripTags(_)
StripTags(s) ==
    LET opens == {i \in DOMAIN s : s[i] = "<" /\ \E j \in (i + 1)..Len(s) : s[j] = ">"}
    IN  IF opens = {} THEN s
        ELSE LET p == CHOOSE i \in opens : \A k \in opens : i <= k
                 q == CHOOSE j \in (p + 1)..Len(s) :
                          s[j] = ">" /\ \A k \in (p + 1)..(j - 1) : s[k] # ">"
             IN  SubSeq(s, 1, p - 1) \o StripTags(SubSeq(s, q + 1, Len(s)))

\* The entities map of sanitize.
Entity(c) ==
    CASE c = "<" -> <<"&", "l", "t", ";">>
      [] c = ">" -> <<"&", "g", "t", ";">>
      [] c = "\"" -> <<"&", "q", "u", "o", "t", ";">>
      [] c = "'" -> <<"&", "#", "x", "2", "7", ";">>
      [] c = "&" -> <<"&", "a", "m", "p", ";">>
      [] OTHER -> <<c>>

\* .replace(/[<>"'&]/g, char => entities[char])
\* Every character is replaced on its own, so the replacement of a string
\* is the replacement of its two halves, one after the other.
RECURSIVE Escape(_)
Escape(s) ==
    IF s = <<>> THEN <<>>
    ELSE IF Len(s) = 1 THEN Entity(s[1])
    ELSE LET m == Len(s) \div 2
         IN  Escape(SubSeq(s, 1, m)) \o Escape(SubSeq(s, m + 1, Len(s)))

\* String.prototype.trim
RECURSIVE Trim(_)
Trim(s) ==
    IF s = <<>> THEN <<>>
    ELSE IF IsSpace(Head(s)) THEN Trim(Tail(s))
    ELSE IF IsSpace(s[Len(s)]) THEN Trim(SubSeq(s, 1, Len(s) - 1))
    ELSE s

sanitizeUncut(str, maxLength) ==
    IF str = Missing \/ str = <<>> THEN <<>>
    ELSE Trim(Escape(StripTags(str)))

\* sanitize(str, maxLength): '' for a missing or empty value, else tags
\* stripped, special characters escaped, trimmed, cut to maxLength.
sanitize(str, maxLength) ==
    IF str = Missing \/ str = <<>> THEN <<>>
    ELSE Take(Trim(Escape(StripTags(str))), maxLength)

\* String.prototype.toLowerCase, on the letters the inputs are made of.
LowerChar(c) == CASE c = "J" -> "j" [] c = "X" -> "x" [] OTHER -> c

toLowerCase(s) == [i \in DOMAIN s |-> LowerChar(s[i])]

\* /^[^\s@]+@[^\s@]+\.[^\s@]+$/.test(email): no white space, exactly one
\* '@', not in front, and after it a '.' with a character on either side.
isValidEmail(email) ==
    /\ \A i \in DOMAIN email : ~IsSpace(email[i])
    /\ \E a \in DOMAIN email :
          /\ email[a] = "@"
          /\ \A i \in DOMAIN email : email[i] = "@" => i = a
          /\ a > 1
          /\ \E d \in (a + 2)..(Len(email) - 1) : email[d] = "."

\* !name || !name.trim()
IsBlank(str) == str = Missing \/ Trim(str) = <<>>

\* The two checks of the handler that answer 400.
LeadAccepted(b) == ~IsBlank(b.name) /\ b.email # Missing /\ b.email # <<>> /\ isValidEmail(b.email)

general == <<"g", "e", "n", "e", "r", "a", "l">>

\* The lead literal of the handler.
LeadRecord(r, b, t) ==
    [id |-> t,
     type |-> RecordType("leads"),
     name |-> sanitize(b.name, 100),
     email |-> toLowerCase(sanitize(b.email, 254)),
     interest |-> IF sanitize(b.interest, 50) = <<>> THEN general ELSE sanitize(b.interest, 50),
     timestamp |-> t,
     req |-> r]

\* Request bodies: name, email and interest present or not, blank, plain,
\* with markup, with characters to escape.
LeadNames == {Missing, <<" ">>, <<"J", "o">>, <<"<", "b", ">", "J", "&">>}
LeadEmails == {Missing, <<"j", "@", "x">>, <<"J", "@", "X", ".", "c">>}
LeadInterests == {Missing, <<>>, <<"r", "a">>, <<" ", "<", "i", ">">>, <<"a", "'", "b", " ">>}
LeadBodies == [name : LeadNames, email : LeadEmails, interest : LeadInterests,
               subject : {Missing}, message : {Missing}, company : {Missing}, type : {Missing}]

\* POST /api/leads arrives: 400 for a blank name or a bad email, else the
\* lead is built, readData and push run and writeData suspends in lock().
PostLead(r, b, elapsed) ==
    /\ phase = "running"
    /\ pc[r] = "idle"
    /\ \A q \in Reqs : q < r => pc[q] # "idle"
    /\ now + elapsed <= MaxClock
    /\ now' = now + elapsed
    /\ body' = [body EXCEPT ![r] = b]
    /\ coll' = [coll EXCEPT ![r] = "leads"]
    /\ IF LeadAccepted(b)
       THEN /\ pc' = [pc EXCEPT ![r] = "locking"]
            /\ rec' = [rec EXCEPT ![r] = LeadRecord(r, b, now')]
            /\ snap' = [snap EXCEPT ![r] = Push(readData("leads"), LeadRecord(r, b, now'))]
            /\ UNCHANGED status
       ELSE /\ pc' = [pc EXCEPT ![r] = "rejected"]
            /\ status' = [status EXCEPT ![r] = 400]
            /\ UNCHANGED <<rec, snap>>
    /\ UNCHANGED <<disk, torn, lockdir, attempts, err>>
    /\ UNCHANGED <<fsVars, adminVars, trackVars, webVars>>

\* No request is between its arrival and its response.
Quiet == \A r \in Reqs : pc[r] \in {"idle", "ok", "failed", "rejected"}

\* Lead submissions handled one after the other.
LeadNext ==
    \/ \E r \in Reqs, b \in LeadBodies, e \in 0..1 : Quiet /\ PostLead(r, b, e)
    \/ \E r \in Reqs : TryLock(r)
    \/ \E r \in Reqs : WriteOk(r)
    \/ \E r \in Reqs, t \in BOOLEAN : WriteFail(r, t)
    \/ \E r \in Reqs : Release(r)

LeadSpec == Init /\ [][LeadNext]_vars

\* ---- POST /api/contact, POST /api/investors -------------------------------

GeneralInquiry == <<"G", "e", "n", "e", "r", "a", "l", " ", "I", "n", "q", "u", "i", "r", "y">>

\* The contact literal of the handler.
ContactRecord(r, b, t) ==
    [id |-> t,
     type |-> RecordType("contacts"),
     name |-> sanitize(b.name, 100),
     email |-> toLowerCase(sanitize(b.email, 254)),
     subject |-> IF sanitize(b.subject, 100) = <<>> THEN GeneralInquiry
                 ELSE sanitize(b.subject, 100),
     message |-> sanitize(b.message, 5000),
     status |-> "new",
     timestamp |-> t,
     req |-> r]

\* The investor literal of the handler: the body's type goes to inquiryType.
InvestorRecord(r, b, t) ==
    [id |-> t,
     type |-> RecordType("investors"),
     name |-> sanitize(b.name, 100),
     email |-> toLowerCase(sanitize(b.email, 254)),
     company |-> sanitize(b.company, 100),
     inquiryType |-> IF sanitize(b.type, 50) = <<>> THEN general ELSE sanitize(b.type, 50),
     message |-> sanitize(b.message, 5000),
     status |-> "new",
     timestamp |-> t,
     req |-> r]

ContactAcceptedNoMessage(b) == LeadAccepted(b)

\* The three checks of the contact handler that answer 400.
ContactAccepted(b) == LeadAccepted(b) /\ ~IsBlank(b.message)

\* The two checks of the investor handler that answer 400.
InvestorAccepted(b) == LeadAccepted(b)

\* A handler from its arrival to its first await: 400 when the body fails
\* the handler's checks, else the record is built, readData and push run and
\* writeData suspends in lock().
Post(r, c, b, accepted, record, elapsed) ==
    /\ phase = "running"
    /\ pc[r] = "idle"
    /\ \A q \in Reqs : q < r => pc[q] # "idle"
    /\ now + elapsed <= MaxClock
    /\ now' = now + elapsed
    /\ body' = [body EXCEPT ![r] = b]
    /\ coll' = [coll EXCEPT ![r] = c]
    /\ IF accepted
       THEN /\ pc' = [pc EXCEPT ![r] = "locking"]
            /\ rec' = [rec EXCEPT ![r] = record]
            /\ snap' = [snap EXCEPT ![r] = Push(readData(c), record)]
            /\ UNCHANGED status
       ELSE /\ pc' = [pc EXCEPT ![r] = "rejected"]
            /\ status' = [status EXCEPT ![r] = 400]
            /\ UNCHANGED <<rec, snap>>
    /\ UNCHANGED <<disk, torn, lockdir, attempts, err>>
    /\ UNCHANGED <<fsVars, adminVars, trackVars, webVars>>

PostContact(r, b, elapsed) ==
    Post(r, "contacts", b, ContactAccepted(b), ContactRecord(r, b, now + elapsed), elapsed)

PostInvestor(r, b, elapsed) ==
    Post(r, "investors", b, InvestorAccepted(b), InvestorRecord(r, b, now + elapsed), elapsed)

\* Submitted strings: plain, with markup and characters to escape, and one
\* character longer than a cap.
Jo == <<"J", "o">>
JoMail == <<"J", "@", "X", ".", "c">>
Markup == <<"<", "b", ">", "J", "\"", "'", "&", ">", "<">>
Long(n) == [i \in 1..n |-> "a"]
LongMail == Long(253) \o <<"@", "x", ".", "c">>

FormLeads ==
    {[NoBody EXCEPT !.name = Jo, !.email = JoMail, !.interest = <<"r", "a">>, !.type = Jo],
     [NoBody EXCEPT !.name = Markup, !.email = LongMail, !.interest = Long(51)],
     [NoBody EXCEPT !.name = Jo, !.email = <<"j", "@", "x">>],
     [NoBody EXCEPT !.name = <<" ">>, !.email = JoMail]}

FormContacts ==
    {[NoBody EXCEPT !.name = Jo, !.email = JoMail, !.message = Markup],
     [NoBody EXCEPT !.name = Long(101), !.email = JoMail, !.subject = Long(101),
                    !.message = Long(5001)],
     [NoBody EXCEPT !.name = Jo, !.email = JoMail, !.subject = Jo, !.message = <<" ", " ">>],
     [NoBody EXCEPT !.name = Jo, !.message = Jo]}

FormInvestors ==
    {[NoBody EXCEPT !.name = Jo, !.email = JoMail, !.type = <<"l", "e", "a", "d">>],
     [NoBody EXCEPT !.name = Jo, !.email = LongMail, !.company = Long(101),
                    !.type = Long(51), !.message = Long(5001)],
     [NoBody EXCEPT !.name = Jo, !.email = JoMail, !.company = Markup, !.type = Markup],
     [NoBody EXCEPT !.email = JoMail, !.type = Jo]}

\* Submissions to the three forms, handled one after the other.
FormsNext ==
    \/ \E r \in Reqs, b \in FormLeads : Quiet /\ PostLead(r, b, 0)
    \/ \E r \in Reqs, b \in FormContacts : Quiet /\ PostContact(r, b, 0)
    \/ \E r \in Reqs, b \in FormInvestors : Quiet /\ PostInvestor(r, b, 0)
    \/ \E r \in Reqs : TryLock(r)
    \/ \E r \in Reqs : WriteOk(r)
    \/ \E r \in Reqs, t \in BOOLEAN : WriteFail(r, t)
    \/ \E r \in Reqs : Release(r)

FormsSpec == Init /\ [][FormsNext]_vars

\* ---- admin endpoints behind adminAuth ---------------------------------------
\* The requests are those that reach the route: the HTTPS redirect and the
\* rate limiter in front of it answer without running adminAuth.

AdminKeys == {NoKey, "k1"}
Headers == {NoHeader, "k1", "k2"}

\* GET /api/leads, /api/contacts, /api/investors, /api/all, /api/analytics
\* and /api/export/:type with the three types and one that does not exist.
Exports == {"export/leads", "export/contacts", "export/investors", "export/bogus"}

AdminEndpoints == Collections \cup {"all", "analytics"} \cup Exports

\* req.params.type of an export request.
ExportType(e) ==
    CASE e = "export/leads" -> "leads"
      [] e = "export/contacts" -> "contacts"
      [] e = "export/investors" -> "investors"
      [] OTHER -> "bogus"

adminAuthNoProductionCheck(h) ==
    IF adminKey = NoKey THEN 0
    ELSE IF h # adminKey THEN 401
    ELSE 0

\* adminAuth: the status it answers itself, 0 when it calls next().
adminAuth(h) ==
    IF isProduction /\ adminKey = NoKey THEN 500
    ELSE IF adminKey = NoKey THEN 0
    ELSE IF h # adminKey THEN 401
    ELSE 0

\* GET /api/export/:type behind adminAuth.
ExportHandler(type) ==
    IF type \notin Collections THEN Message(400)
    ELSE IF Len(readData(type)) = 0 THEN Message(404)
    ELSE [status |-> 200, kind |-> "csv", data |-> readData(type)]

\* The handlers behind adminAuth.
AdminHandler(e) ==
    IF e \in Collections
    THEN [status |-> 200, kind |-> "listing", data |-> readData(e)]
    ELSE IF e = "all"
    THEN [status |-> 200, kind |-> "all",
          data |-> <<readData("leads"), readData("contacts"), readData("investors")>>]
    ELSE IF e = "analytics"
    THEN [status |-> 200, kind |-> "analytics",
          data |-> <<readAnalytics.pageViews, Take(readAnalytics.referrers, 20)>>]
    ELSE ExportHandler(ExportType(e))

\* A request to an admin endpoint with x-admin-key h (NoHeader: no header).
AdminGet(e, h) ==
    /\ phase = "running"
    /\ areq' = [endpoint |-> e, header |-> h]
    /\ ares' = IF adminAuth(h) # 0 THEN Message(adminAuth(h)) ELSE AdminHandler(e)
    /\ UNCHANGED <<isProduction, adminKey, csrfValid, clientVars>>
    /\ UNCHANGED <<storeVars, fsVars, adminVars, trackVars>>

\* Any configuration of the server, the data files in any state.
InitAuth ==
    /\ FileStates
    /\ fcond["analytics"] = "ok"
    /\ lockdir = [c \in Collections |-> FALSE]
    /\ now = 1
    /\ pc = [r \in Reqs |-> "idle"]
    /\ coll = [r \in Reqs |-> NoFile]
    /\ rec = [r \in Reqs |-> NoRec]
    /\ snap = [r \in Reqs |-> <<>>]
    /\ attempts = [r \in Reqs |-> 0]
    /\ err = [r \in Reqs |-> "none"]
    /\ status = [r \in Reqs |-> 0]
    /\ body = [r \in Reqs |-> NoBody]
    /\ InitAdmin
    /\ InitTrack
    /\ phase = "running"
    /\ analytics = ArrayDoc
    /\ isProduction \in BOOLEAN
    /\ adminKey \in AdminKeys
    /\ areq = NoReq
    /\ ares = NoResponse
    /\ csrfValid = AllValid
    /\ InitClient

AuthNext == \E e \in AdminEndpoints, h \in Headers : AdminGet(e, h)

AuthSpec == InitAuth /\ [][AuthNext]_vars

\* ---- csrfProtection ------------------------------------------------------------
\* csurf is a library: csrfProtection passes a request whose X-CSRF-Token
\* matches the secret of its _csrf cookie and hands any other POST to the
\* error handlers with code EBADCSRFTOKEN.  csrfValid says of each request
\* not yet sent whether it will carry such a token.

\* A body the three submission handlers accept.
TokenBody == [NoBody EXCEPT !.name = Jo, !.email = JoMail, !.message = Jo]

\* A client prepares the next form submission (kind "form") or event
\* (kind "event") of slot i, with or without a valid token.
Compose(kind, i, valid) ==
    /\ phase = "running"
    /\ IF kind = "form" THEN i \in Reqs /\ pc[i] = "idle" ELSE i \in Trackers /\ tpc[i] = "idle"
    /\ csrfValid[kind][i] # valid
    /\ csrfValid' = [csrfValid EXCEPT ![kind][i] = valid]
    /\ UNCHANGED <<isProduction, adminKey, areq, ares, clientVars>>
    /\ UNCHANGED <<storeVars, fsVars, adminVars, trackVars>>

\* csrfProtection fails on request r to the handler of collection c: the
\* CSRF error handler answers 403 and the handler does not run.
csrfProtection(r, c, b) ==
    /\ phase = "running"
    /\ pc[r] = "idle"
    /\ \A q \in Reqs : q < r => pc[q] # "idle"
    /\ ~csrfValid.form[r]
    /\ body' = [body EXCEPT ![r] = b]
    /\ coll' = [coll EXCEPT ![r] = c]
    /\ pc' = [pc EXCEPT ![r] = "rejected"]
    /\ status' = [status EXCEPT ![r] = 403]
    /\ UNCHANGED <<disk, torn, lockdir, now, rec, snap, attempts, err>>
    /\ UNCHANGED <<fsVars, adminVars, trackVars, webVars>>

\* The four POST routes as registered: three behind csrfProtection, the
\* event endpoint with its handler alone.
CsrfNext ==
    \/ \E i \in Reqs, v \in BOOLEAN : Compose("form", i, v)
    \/ \E i \in Trackers, v \in BOOLEAN : clock < MaxOps /\ Compose("event", i, v)
    \/ \E r \in Reqs, c \in Collections : csrfProtection(r, c, TokenBody)
    \/ \E r \in Reqs : Quiet /\ csrfValid.form[r] /\ PostLead(r, TokenBody, 0)
    \/ \E r \in Reqs : Quiet /\ csrfValid.form[r] /\ PostContact(r, TokenBody, 0)
    \/ \E r \in Reqs : Quiet /\ csrfValid.form[r] /\ PostInvestor(r, TokenBody, 0)
    \/ \E r \in Reqs : TryLock(r)
    \/ \E r \in Reqs : WriteOk(r)
    \/ \E r \in Reqs : Release(r)
    \/ \E t \in Trackers : AllIdle /\ clock < MaxOps /\ TrackEvent(t, "click")
    \/ \E t \in Trackers : TrackTryLock(t)
    \/ \E t \in Trackers : TrackWriteOk(t)
    \/ \E t \in Trackers : TrackRelease(t)

CsrfSpec == Init /\ [][CsrfNext]_vars

\* ---- the submit handlers of the client forms ---------------------------------

\* The next request the server will see.
NextReq == CHOOSE r \in Reqs : pc[r] = "idle" /\ \A q \in Reqs : q < r => pc[q] # "idle"

\* The submit event: the label is saved, the button shows the busy label and
\* is disabled, the handler suspends in getCsrfToken().
FormSubmit ==
    /\ fpc = "idle" /\ formShown /\ ~submitBtn.disabled
    /\ originalText' = submitBtn.text
    /\ submitBtn' = [disabled |-> TRUE, text |-> BusyLabel(form)]
    /\ fpc' = "token"
    /\ UNCHANGED <<form, freq, formShown, successShown>>
    /\ UNCHANGED <<storeVars, fsVars, adminVars, trackVars, frontVars, dashVars, simVars>>

RestoreLabelOnly == submitBtn' = [submitBtn EXCEPT !.text = originalText]

\* The else branch and the catch block: the label is put back and the button
\* enabled.
Restore == submitBtn' = [disabled |-> FALSE, text |-> originalText]

\* getCsrfToken() returns: with a token the POST is sent, without one (null
\* after a failed fetch, undefined from a body without csrfToken) the handler
\* throws into its catch block.
TokenResult(ok) ==
    /\ fpc = "token"
    /\ IF ok
       THEN /\ \E r \in Reqs : pc[r] = "idle"
            /\ fpc' = "posting"
            /\ freq' = NextReq
            /\ UNCHANGED submitBtn
       ELSE /\ fpc' = "idle"
            /\ Restore
            /\ UNCHANGED freq
    /\ UNCHANGED <<form, originalText, formShown, successShown>>
    /\ UNCHANGED <<storeVars, fsVars, adminVars, trackVars, frontVars, dashVars, simVars>>

\* The POST of the pending attempt reaches the form's endpoint.
FormArrives(b) ==
    /\ fpc = "posting"
    /\ pc[freq] = "idle"
    /\ CASE form = "lead" -> PostLead(freq, b, 0)
         [] form = "contact" -> PostContact(freq, b, 0)
         [] OTHER -> PostInvestor(freq, b, 0)

\* response.json() resolves with the server's answer: success hides the form
\* and shows the success view, success: false takes the else branch.
FormResult ==
    /\ fpc = "posting"
    /\ pc[freq] \in {"ok", "failed", "rejected"}
    /\ fpc' = "idle"
    /\ IF status[freq] = 200
       THEN /\ formShown' = FALSE
            /\ successShown' = TRUE
            /\ UNCHANGED submitBtn
       ELSE /\ Restore
            /\ UNCHANGED <<formShown, successShown>>
    /\ UNCHANGED <<form, freq, originalText>>
    /\ UNCHANGED <<storeVars, fsVars, adminVars, trackVars, frontVars, dashVars, simVars>>

\* fetch rejects (network error) or the body of the response is not JSON:
\* the catch block runs.
FormError ==
    /\ fpc = "posting"
    /\ fpc' = "idle"
    /\ Restore
    /\ UNCHANGED <<form, freq, originalText, formShown, successShown>>
    /\ UNCHANGED <<storeVars, fsVars, adminVars, trackVars, frontVars, dashVars, simVars>>

\* What the visitor typed: a body every handler accepts and one without a name.
TypedBodies == {TokenBody, [TokenBody EXCEPT !.name = <<" ">>]}

\* The page of any of the three forms, freshly loaded, on a freshly started
\* server.
InitPage ==
    /\ InitStore
    /\ InitAdmin
    /\ InitTrack
    /\ InitFront
    /\ form \in Forms
    /\ FormLoaded
    /\ InitDash
    /\ InitSim
    /\ fcond = [f \in DataFiles |-> "ok"]
    /\ phase = "running"
    /\ analytics = ArrayDoc

ClientNext ==
    \/ FormSubmit
    \/ \E ok \in BOOLEAN : TokenResult(ok)
    \/ \E b \in TypedBodies : FormArrives(b)
    \/ \E r \in Reqs : TryLock(r)
    \/ \E r \in Reqs : WriteOk(r)
    \/ \E r \in Reqs, t \in BOOLEAN : WriteFail(r, t)
    \/ \E r \in Reqs : Release(r)
    \/ FormResult
    \/ FormError

ClientSpec == InitPage /\ [][ClientNext]_vars

\* ---- the admin dashboard page ----------------------------------------------------
\* admin.js from its IIFE's init() on.  A step is one task of the page: an
\* event handler or the continuation of an awaited fetch, run to its next
\* await.  The page's markup is not part of the sources: whether the overlay
\* and the dashboard are displayed before the first showLogin/showDashboard
\* is left open.

\* The keys a user types or a tab has kept.
TypedKeys == {"k1", "k2"}

\* What the server answers to a request carrying key k (adminAuth in front
\* of every admin route).
Answer(k) == IF adminAuth(k) = 0 THEN 200 ELSE adminAuth(k)

\* The status seen when fetch rejects.
Lost == 0

\* fetch(url, { headers: { 'X-Admin-Key': key } }) is sent (beyond MaxCalls
\* pending requests it is not modelled).
Start(cs, call) ==
    IF BagCardinality(cs) < MaxCalls THEN cs (+) SetToBag({call}) ELSE cs

\* showLogin()
showLogin ==
    /\ overlayShown' = TRUE
    /\ dashShown' = FALSE

showDashboardNoKeyCheck(cs) ==
    /\ overlayShown' = FALSE
    /\ dashShown' = TRUE
    /\ calls' = IF storedKey' = NoKey THEN cs
                ELSE Start(Start(cs, [kind |-> "all", key |-> storedKey']),
                           [kind |-> "analytics", key |-> storedKey'])

\* showDashboard(), with loadDashboardData() run to its await: each of the two
\* fetchWithAuth calls sends its request with the stored key, or calls
\* showLogin() when there is none.  cs: the pending requests before the call.
showDashboard(cs) ==
    IF storedKey' = NoKey
    THEN showLogin /\ calls' = cs
    ELSE /\ overlayShown' = FALSE
         /\ dashShown' = TRUE
         /\ calls' = Start(Start(cs, [kind |-> "all", key |-> storedKey']),
                           [kind |-> "analytics", key |-> storedKey'])

\* clearAuth(); showLogin()
ClearAndLogin ==
    /\ storedKey' = NoKey
    /\ storedBy' = "none"
    /\ showLogin

\* The login form is submitted with key k: the button is disabled and
\* validateAdminKey(k) sends GET /api/all.
LoginSubmit(k) ==
    /\ overlayShown /\ ~loginBusy
    /\ BagCardinality(calls) < MaxCalls
    /\ loginBusy' = TRUE
    /\ calls' = Start(calls, [kind |-> "login", key |-> k])
    /\ UNCHANGED <<storedKey, storedBy, overlayShown, dashShown, dlast, dtick>>
    /\ UNCHANGED <<storeVars, fsVars, adminVars, trackVars, frontVars, formVars, simVars>>

\* The click handler of the logout button.
Logout ==
    /\ ClearAndLogin
    /\ UNCHANGED <<loginBusy, calls, dlast, dtick>>
    /\ UNCHANGED <<storeVars, fsVars, adminVars, trackVars, frontVars, formVars, simVars>>

\* exportCSV(type) from the click of an export button of the dashboard.
ExportClick ==
    /\ dashShown
    /\ IF storedKey = NoKey
       THEN showLogin /\ UNCHANGED calls
       ELSE /\ BagCardinality(calls) < MaxCalls
            /\ calls' = Start(calls, [kind |-> "export", key |-> storedKey])
            /\ UNCHANGED <<overlayShown, dashShown>>
    /\ UNCHANGED <<storedKey, storedBy, loginBusy, dlast, dtick>>
    /\ UNCHANGED <<storeVars, fsVars, adminVars, trackVars, frontVars, formVars, simVars>>

\* The response to the pending request call arrives with status st (Lost:
\* fetch rejected) and the code awaiting it runs.
\*   login:  the submit handler after await validateAdminKey(key)
\*   init:   the then-callback of init's validateAdminKey(existingKey)
\*   all, analytics: fetchWithAuth after await fetch
\*   export: the then-callback of exportCSV's fetch
Respond(call, st) ==
    LET rest == calls (-) SetToBag({call})
        isValid == st = 200
    IN  /\ BagIn(call, calls)
        /\ dlast' = [kind |-> call.kind, key |-> call.key, status |-> st]
        /\ dtick' = ~dtick
        /\ CASE call.kind = "login" ->
                  /\ loginBusy' = FALSE
                  /\ IF isValid
                     THEN /\ storedKey' = call.key
                          /\ storedBy' = "login"
                          /\ showDashboard(rest)
                     ELSE /\ calls' = rest
                          /\ UNCHANGED <<storedKey, storedBy, overlayShown, dashShown>>
             [] call.kind = "init" ->
                  /\ UNCHANGED loginBusy
                  /\ IF isValid
                     THEN /\ UNCHANGED <<storedKey, storedBy>>
                          /\ showDashboard(rest)
                     ELSE /\ ClearAndLogin
                          /\ calls' = rest
             [] OTHER ->
                  /\ UNCHANGED loginBusy
                  /\ calls' = rest
                  /\ IF st = 401
                     THEN ClearAndLogin
                     ELSE UNCHANGED <<storedKey, storedBy, overlayShown, dashShown>>
        /\ UNCHANGED <<storeVars, fsVars, adminVars, trackVars, frontVars, formVars, simVars>>

\* The server is restarted with another ADMIN_KEY.
KeyRotated(k) ==
    /\ k # adminKey
    /\ adminKey' = k
    /\ UNCHANGED <<isProduction, areq, ares, csrfValid, clientVars>>
    /\ UNCHANGED <<storeVars, fsVars, adminVars, trackVars>>

\* The page right after init(): with no key in sessionStorage showLogin() has
\* run; with a key its validation is pending and the page is as the markup
\* shows it.
InitDashPage ==
    /\ InitStore
    /\ InitAdmin
    /\ InitTrack
    /\ InitForm
    /\ InitSim
    /\ fcond = [f \in DataFiles |-> "ok"]
    /\ phase = "running"
    /\ analytics = ArrayDoc
    /\ isProduction = TRUE
    /\ adminKey \in TypedKeys
    /\ areq = NoReq
    /\ ares = NoResponse
    /\ csrfValid = AllValid
    /\ storedKey \in TypedKeys \cup {NoKey}
    /\ storedBy = IF storedKey = NoKey THEN "none" ELSE "load"
    /\ IF storedKey = NoKey
       THEN overlayShown = TRUE /\ dashShown = FALSE
       ELSE overlayShown \in BOOLEAN /\ dashShown \in BOOLEAN
    /\ loginBusy = FALSE
    /\ calls = IF storedKey = NoKey THEN EmptyBag
               ELSE SetToBag({[kind |-> "init", key |-> storedKey]})
    /\ dlast = [kind |-> "none", key |-> NoKey, status |-> 0]
    /\ dtick = FALSE

DashNext ==
    \/ \E k \in TypedKeys : LoginSubmit(k)
    \/ Logout
    \/ ExportClick
    \/ \E call \in BagToSet(calls) : Respond(call, Answer(call.key))
    \/ \E call \in BagToSet(calls) : Respond(call, Lost)
    \/ \E k \in TypedKeys : KeyRotated(k)

DashSpec == InitDashPage /\ [][DashNext]_vars

\* ---- the app simulator ----------------------------------------------------------

\* The handlers of the simulator are called from the page's markup and from
\* timers; a step is one task: a handler, a setTimeout callback or one tick of
\* a countdown.  The toast and the spinners of the buttons are not modelled.

SimFrame ==
    UNCHANGED <<storeVars, fsVars, adminVars, trackVars, frontVars, formVars, dashVars>>

\* A handler the user's click or swipe runs.
ByUser == cause' = "user" /\ quiet' = FALSE

\* setTimeout(callback of this kind, delay)
setTimeout(kind) ==
    /\ BagCardinality(timeouts) < MaxTimers
    /\ timeouts' = timeouts (+) SetToBag({kind})

\* The pending callback of this kind runs.
Due(kind) ==
    /\ BagIn(kind, timeouts)
    /\ timeouts' = timeouts (-) SetToBag({kind})
    /\ cause' = "timer"
    /\ UNCHANGED quiet

showScreenNoHide(screenId, ride) ==
    /\ currentScreen' = screenId
    /\ IF screenId = "dashboard" /\ ride
       THEN fabVisible' = TRUE /\ ridePanel' = TRUE /\ bottomPanel' = FALSE
       ELSE UNCHANGED <<fabVisible, ridePanel, bottomPanel>>

\* showScreen(screenId), called while state.activeRide is ride.
showScreen(screenId, ride) ==
    /\ currentScreen' = screenId
    /\ IF screenId # "dashboard" \/ ~ride
       THEN fabVisible' = FALSE /\ ridePanel' = FALSE /\ bottomPanel' = TRUE
       ELSE fabVisible' = TRUE /\ ridePanel' = TRUE /\ bottomPanel' = FALSE

ScreenKept == UNCHANGED <<currentScreen, fabVisible, ridePanel, bottomPanel>>

SignalKept ==
    UNCHANGED <<notifVisible, countdownTime, intervals, handleRuns, sinceSignal>>

\* The callback init() and resetDemo() schedule after 2 seconds.
SplashTimeout ==
    /\ Due("splash")
    /\ IF currentScreen = "splash"
       THEN showScreen("login", activeRide)
       ELSE ScreenKept
    /\ SignalKept
    /\ UNCHANGED <<panelIndex, activeRide, counterValue, autoplay>>
    /\ SimFrame

\* The click handler of login-btn: the button is disabled until its timer ran.
LoginClick ==
    /\ ~BagIn("login", timeouts)
    /\ setTimeout("login")
    /\ ByUser
    /\ ScreenKept
    /\ SignalKept
    /\ UNCHANGED <<panelIndex, activeRide, counterValue, autoplay>>
    /\ SimFrame

LoginTimeout ==
    /\ Due("login")
    /\ showScreen("dashboard", activeRide)
    /\ SignalKept
    /\ UNCHANGED <<panelIndex, activeRide, counterValue, autoplay>>
    /\ SimFrame

\* The click handler of demo-btn.
DemoClick ==
    /\ showScreen("dashboard", activeRide)
    /\ ByUser
    /\ SignalKept
    /\ UNCHANGED <<panelIndex, activeRide, counterValue, autoplay, timeouts>>
    /\ SimFrame

\* showScreen(screenId) called by a control of the page.
Navigate(screenId) ==
    /\ showScreen(screenId, activeRide)
    /\ ByUser
    /\ SignalKept
    /\ UNCHANGED <<panelIndex, activeRide, counterValue, autoplay, timeouts>>
    /\ SimFrame

Clamp(lo, hi, n) == IF n < lo THEN lo ELSE IF n > hi THEN hi ELSE n

\* A swipe moves the panel by one to either side.
Directions == {-1, 1}

navigatePanelUnclamped(direction) ==
    /\ panelIndex' = panelIndex + direction
    /\ ByUser
    /\ ScreenKept
    /\ SignalKept
    /\ UNCHANGED <<activeRide, counterValue, autoplay, timeouts>>
    /\ SimFrame

navigatePanel(direction) ==
    /\ panelIndex' = Clamp(0, PanelMax, panelIndex + direction)
    /\ ByUser
    /\ ScreenKept
    /\ SignalKept
    /\ UNCHANGED <<activeRide, counterValue, autoplay, timeouts>>
    /\ SimFrame

\* The steps of the counter's buttons.
Deltas == {-1, 1}

adjustCounter(delta) ==
    /\ counterValue' = Clamp(CounterMin, CounterMax, counterValue + delta)
    /\ ByUser
    /\ ScreenKept
    /\ SignalKept
    /\ UNCHANGED <<panelIndex, activeRide, autoplay, timeouts>>
    /\ SimFrame

\* create-ride-btn is disabled until its timer ran.
createRide ==
    /\ ~BagIn("createRide", timeouts)
    /\ setTimeout("createRide")
    /\ ByUser
    /\ ScreenKept
    /\ SignalKept
    /\ UNCHANGED <<panelIndex, activeRide, counterValue, autoplay>>
    /\ SimFrame

CreateTimeout ==
    /\ Due("createRide")
    /\ showScreen("ride-created", activeRide)
    /\ SignalKept
    /\ UNCHANGED <<panelIndex, activeRide, counterValue, autoplay>>
    /\ SimFrame

\* join-ride-btn is disabled by joinRide and enabled again by updateCharCount.
joinRide ==
    /\ setTimeout("joinRide")
    /\ ByUser
    /\ ScreenKept
    /\ SignalKept
    /\ UNCHANGED <<panelIndex, activeRide, counterValue, autoplay>>
    /\ SimFrame

JoinTimeout ==
    /\ Due("joinRide")
    /\ activeRide' = TRUE
    /\ showScreen("dashboard", TRUE)
    /\ SignalKept
    /\ UNCHANGED <<panelIndex, counterValue, autoplay>>
    /\ SimFrame

startActiveRide ==
    /\ activeRide' = TRUE
    /\ showScreen("dashboard", TRUE)
    /\ ByUser
    /\ SignalKept
    /\ UNCHANGED <<panelIndex, counterValue, autoplay, timeouts>>
    /\ SimFrame

endRide ==
    /\ activeRide' = FALSE
    /\ showScreen("dashboard", FALSE)
    /\ ByUser
    /\ SignalKept
    /\ UNCHANGED <<panelIndex, counterValue, autoplay, timeouts>>
    /\ SimFrame

sendSignal ==
    /\ setTimeout("signal")
    /\ ByUser
    /\ ScreenKept
    /\ SignalKept
    /\ UNCHANGED <<panelIndex, activeRide, counterValue, autoplay>>
    /\ SimFrame

\* clearInterval(countdownInterval) on the running countdowns: the handle
\* names the countdown started last, or one that was cleared already.
clearInterval(running) ==
    IF handleRuns THEN SubSeq(running, 1, Len(running) - 1) ELSE running

simulateSignalNoClear ==
    /\ notifVisible' = TRUE
    /\ countdownTime' = CountdownStart
    /\ intervals' = Append(intervals, CountdownStart)
    /\ handleRuns' = TRUE
    /\ sinceSignal' = 0

\* simulateSignal(type): the type selects the texts of the notification only.
simulateSignal ==
    /\ notifVisible' = TRUE
    /\ countdownTime' = CountdownStart
    /\ intervals' = Append(clearInterval(intervals), CountdownStart)
    /\ handleRuns' = TRUE
    /\ sinceSignal' = 0

\* dismissSignal() while these countdowns run.
dismissSignal(running) ==
    /\ intervals' = clearInterval(running)
    /\ handleRuns' = FALSE
    /\ notifVisible' = FALSE

\* The callback sendSignal schedules after 1.5 seconds.
SignalTimeout ==
    /\ Due("signal")
    /\ simulateSignal
    /\ ScreenKept
    /\ UNCHANGED <<panelIndex, activeRide, counterValue, autoplay>>
    /\ SimFrame

\* simulateSignal() called by a control of the page.
SimulateClick ==
    /\ simulateSignal
    /\ ByUser
    /\ ScreenKept
    /\ UNCHANGED <<panelIndex, activeRide, counterValue, autoplay, timeouts>>
    /\ SimFrame

\* One tick of the i-th running countdown.
Tick(i) ==
    /\ i \in 1..Len(intervals)
    /\ LET timeLeft == intervals[i] - 1
           running == [intervals EXCEPT ![i] = timeLeft]
       IN  /\ countdownTime' = timeLeft
           /\ IF timeLeft <= 0
              THEN dismissSignal(running)
              ELSE intervals' = running /\ UNCHANGED <<handleRuns, notifVisible>>
    /\ sinceSignal' = sinceSignal + 1
    /\ cause' = "tick"
    /\ ScreenKept
    /\ UNCHANGED <<panelIndex, activeRide, counterValue, autoplay, timeouts, quiet>>
    /\ SimFrame

DismissClick ==
    /\ dismissSignal(intervals)
    /\ ByUser
    /\ ScreenKept
    /\ UNCHANGED <<countdownTime, sinceSignal>>
    /\ UNCHANGED <<panelIndex, activeRide, counterValue, autoplay, timeouts>>
    /\ SimFrame

acknowledgeSignal ==
    /\ dismissSignal(intervals)
    /\ ByUser
    /\ ScreenKept
    /\ UNCHANGED <<countdownTime, sinceSignal>>
    /\ UNCHANGED <<panelIndex, activeRide, counterValue, autoplay, timeouts>>
    /\ SimFrame

resetDemo ==
    /\ panelIndex' = 0
    /\ activeRide' = FALSE
    /\ counterValue' = CounterStart
    /\ dismissSignal(intervals)
    /\ showScreen("splash", FALSE)
    /\ setTimeout("splash")
    /\ cause' = "user"
    /\ quiet' = TRUE
    /\ UNCHANGED <<countdownTime, sinceSignal, autoplay>>
    /\ SimFrame

\* checkUrlParams() and init() on the freshly loaded page: the URL may carry
\* autoplay=false, and init() starts the splash timer only with autoplay.
init ==
    /\ state
    /\ autoplay \in BOOLEAN
    /\ timeouts = IF autoplay THEN SetToBag({"splash"}) ELSE EmptyBag

InitSimPage ==
    /\ InitStore
    /\ InitAdmin
    /\ InitTrack
    /\ InitFront
    /\ InitForm
    /\ InitDash
    /\ init
    /\ fcond = [f \in DataFiles |-> "ok"]
    /\ phase = "running"
    /\ analytics = ArrayDoc

SimNext ==
    \/ SplashTimeout
    \/ LoginClick
    \/ LoginTimeout
    \/ DemoClick
    \/ \E screenId \in Screens : Navigate(screenId)
    \/ createRide
    \/ CreateTimeout
    \/ joinRide
    \/ JoinTimeout
    \/ startActiveRide
    \/ endRide
    \/ sendSignal
    \/ SignalTimeout
    \/ SimulateClick
    \/ \E i \in 1..Len(intervals) : Tick(i)
    \/ DismissClick
    \/ acknowledgeSignal
    \/ resetDemo

SimSpec == InitSimPage /\ [][SimNext]_vars

PanelNext ==
    \/ \E direction \in Directions : navigatePanel(direction)
    \/ \E delta \in Deltas : adjustCounter(delta)
    \/ resetDemo
    \/ SplashTimeout

PanelSpec == InitSimPage /\ [][PanelNext]_vars

\* ---- vocabulary of the claims ---------------------------------------------

Done(r) == pc[r] \in {"ok", "failed"}

\* r has read the collection for update and has not written it back yet.
InCycle(r) == pc[r] \in {"locking", "locked"}

\* r's writeData call has acquired the lock and not yet released it.
Holder(r, c) == pc[r] \in {"locked", "releasing"} /\ coll[r] = c

\* r took a step.
Stepped(r) == pc'[r] # pc[r] \/ attempts'[r] # attempts[r]

\* The file of c is written in this step.
Written(c) == disk'[c] # disk[c] \/ torn'[c] # torn[c]

WriteFailed == \E r \in Reqs : err[r] = "EIO"

\* C1: the read-modify-write cycles of two submissions to the same
\* collection never interleave: while one request is between its readData
\* and its write, no other request to that collection is.
C1_NoInterleavedCycles ==
    \A r, q \in Reqs :
        (r # q /\ coll[r] = coll[q] /\ InCycle(r)) => ~InCycle(q)

\* C2: no lost updates: once all submissions have completed (and no write
\* failed), each collection read back holds the record of every submission
\* that reported success, so it is at least as long as their number.
C2_NoLostUpdates ==
    ((\A r \in Reqs : Done(r)) /\ ~WriteFailed) =>
        \A c \in Collections :
            LET ok == {r \in Reqs : coll[r] = c /\ status[r] = 200}
            IN  /\ \A r \in ok : rec[r] \in Range(readData(c))
                /\ Len(readData(c)) >= Cardinality(ok)

\* C3: at the moment a handler sends its success response, the collection
\* file contains the record that request submitted.
C3_SuccessMeansPersisted ==
    [][\A r \in Reqs :
          (status[r] # 200 /\ status'[r] = 200) =>
              rec[r] \in Range(readData(coll[r]))']_vars

C3_Witness ==
    \E r \in Reqs :
        /\ status[r] = 200
        /\ rec[r] \in Range(readData(coll[r]))
        /\ \E q \in Reqs : q # r /\ coll[q] = coll[r] /\ pc[q] = "locking"

\* C4: a submission that failed, on the lock or on the write, answered 500
\* and its record is not among the records a reader gets from the file.
C4_FailureLeavesNoRecord ==
    \A r \in Reqs :
        pc[r] = "failed" =>
            /\ status[r] = 500
            /\ \A i \in DOMAIN readData(coll[r]) : readData(coll[r])[i].req # r

C4_Witness ==
    \E r, q \in Reqs :
        /\ pc[r] = "failed" /\ err[r] = "ELOCKED" /\ status[r] = 500
        /\ pc[q] = "failed" /\ err[q] = "EIO" /\ status[q] = 500

\* C5: a writeData call that has finished holds no lock: whenever a lock
\* directory exists, a call that acquired it is still before the end of
\* its finally block.
C5_LockReleasedOnExit ==
    \A p \in Collections :
        lockdir[p] =>
            \E r \in Reqs : ~Done(r) /\ Holder(r, coll[r]) /\ LockPath(coll[r]) = p

C5_Witness ==
    \E r \in Reqs : pc[r] = "failed" /\ err[r] = "EIO" /\ ~lockdir[LockPath(coll[r])]

\* C6: lock acquisition is bounded: a pending lock() has failed at most 3
\* times (its next attempt is at most the 4th), giving up leaves the file
\* untouched, and every submission ends in success or failure.
C6_BoundedLockRetry ==
    /\ [](\A r \in Reqs : attempts[r] <= MaxRetries)
    /\ [][\A r \in Reqs :
             (err[r] # "ELOCKED" /\ err'[r] = "ELOCKED") =>
                 (attempts[r] = MaxRetries /\ UNCHANGED <<disk, torn>>)]_vars
    /\ \A r \in Reqs : (pc[r] = "locking") ~> Done(r)

C6_Witness ==
    \E r \in Reqs : pc[r] = "failed" /\ err[r] = "ELOCKED" /\ status[r] = 500

\* C7: every write of a data file is made by a request that holds the
\* file's lock, and at most one request holds the lock of a file.
C7_WritesUnderLock ==
    [][\A c \in Collections :
          /\ Written(c) =>
                 \E r \in Reqs : pc[r] = "locked" /\ coll[r] = c
                                 /\ lockdir[LockPath(c)] /\ pc'[r] = "releasing"
          /\ Cardinality({r \in Reqs : Holder(r, c)'}) <= 1]_vars

C7_Witness ==
    \E r, q \in Reqs :
        /\ r # q /\ coll[r] = coll[q]
        /\ pc[r] = "releasing" /\ err[r] = "none"
        /\ pc[q] = "locking" /\ attempts[q] > 0

\* C8: operations on different collections never contend: a lock attempt
\* fails only when a request to the same collection holds the lock, and a
\* step of a request changes no file and no lock of another collection.
C8_NoCrossCollectionContention ==
    [][\A r \in Reqs :
          Stepped(r) =>
              /\ \A c \in Collections \ {coll'[r]} :
                     /\ disk'[c] = disk[c] /\ torn'[c] = torn[c]
                     /\ lockdir'[c] = lockdir[c]
              /\ (attempts'[r] > attempts[r] \/ (err[r] # "ELOCKED" /\ err'[r] = "ELOCKED"))
                     => \E q \in Reqs : q # r /\ Holder(q, coll[r])]_vars

C8_Witness ==
    \E r, q \in Reqs :
        /\ coll[r] # coll[q]
        /\ pc[r] = "releasing" /\ err[r] = "none"
        /\ pc[q] = "releasing" /\ err[q] = "none"
        /\ disk[coll[r]] = <<rec[r]>> /\ disk[coll[q]] = <<rec[q]>>

\* C9: the ids of the records of one collection are pairwise distinct.
C9_IdsDistinct ==
    \A c \in Collections :
        \A i, j \in DOMAIN disk[c] : i # j => disk[c][i].id # disk[c][j].id

\* C10: collections are append-only: a record that is in a collection file
\* is, unchanged, in the file after every step (steps in which the write
\* itself failed aside).
C10_AppendOnly ==
    [][\A c \in Collections :
          ~torn'[c] => Range(disk[c]) \subseteq Range(disk'[c])]_vars

\* C11: once a write to it has completed, a collection file holds a
\* complete JSON array in every later state, never a partial text.
C11_AlwaysCompleteArray ==
    \A c \in Collections :
        (\E r \in Reqs : coll[r] = c /\ pc[r] \in {"releasing", "ok", "failed"}
                         /\ err[r] # "ELOCKED")
            => ~torn[c]

\* C12: readData never fails: the listing of a collection whose file is
\* missing, unreadable or not valid JSON answers success with count 0.
C12_ReadNeverFails ==
    (adminColl # NoFile /\ (fcond[adminColl] # "ok" \/ torn[adminColl])) =>
        adminResp = [success |-> TRUE, count |-> 0, data |-> <<>>]

C12_Witness ==
    /\ adminColl # NoFile
    /\ fcond[adminColl] = "unreadable" /\ disk[adminColl] # <<>>
    /\ adminResp.success /\ adminResp.count = 0

\* C13: an admin listing leaves the contents and the condition of every
\* data file and the state of every lock unchanged.
C13_ReadHasNoSideEffects ==
    [][(adminSeen' > adminSeen \/ adminColl' \notin {adminColl, NoFile}) =>
           UNCHANGED <<disk, torn, fcond, lockdir, analytics, alock>>]_vars

C13_Witness ==
    /\ adminColl # NoFile
    /\ torn[adminColl]
    /\ \E r \in Reqs : pc[r] = "locked" /\ coll[r] = adminColl

\* C14: two listings of a collection with no write of its file between
\* them answer with equal sequences.
C14_RepeatedReadsAgree ==
    [][(adminColl # NoFile /\ adminColl' = adminColl) => adminResp' = adminResp]_vars

C14_Witness ==
    /\ adminSeen = 2
    /\ adminResp.count > 0
    /\ \E r \in Reqs : pc[r] = "locking" /\ coll[r] = adminColl

\* C15: startup with no data file present leaves the three collection files
\* holding an empty array and the analytics file holding an empty object;
\* files present before are left as they were.
C15_StartupFiles ==
    [][(phase = "boot" /\ phase' = "running") =>
           /\ (\A f \in DataFiles : fcond[f] = "missing") =>
                  /\ \A c \in Collections : fcond'[c] = "ok" /\ ~torn'[c] /\ disk'[c] = <<>>
                  /\ fcond'["analytics"] = "ok" /\ analytics' = ObjectDoc
           /\ \A c \in Collections :
                  fcond[c] # "missing" =>
                      fcond'[c] = fcond[c] /\ torn'[c] = torn[c] /\ disk'[c] = disk[c]
           /\ fcond["analytics"] # "missing" =>
                  fcond'["analytics"] = fcond["analytics"] /\ analytics' = analytics]_vars

\* C16: no analytics update is lost: when K page views of the page have
\* completed their writes, the persisted count of the page for the day is K.
C16_NoLostPageViews ==
    AllIdle => analytics.pageViews[today] = viewsDone

\* C17: the persisted referrers list holds the min(n, 100) most recent
\* external referrers, most recent first, n being the number of page views
\* with an external referrer recorded so far.
C17_ReferrerWindow ==
    AllIdle =>
        LET refs == analytics.referrers
        IN  /\ Len(refs) = IF refsDone < RefCap THEN refsDone ELSE RefCap
            /\ \A i, j \in DOMAIN refs : i < j => refs[i].ts > refs[j].ts

\* The step is a completed analytics write of slot t.
TrackWritten(t) == tpc[t] = "locked" /\ tpc'[t] = "releasing" /\ terr'[t] = "none"

\* C18: after any analytics write, of a page view or of an event, events
\* stored under a date 8 days before today (or older) are gone, and the
\* events of today are still there.
C18_OldEventsPruned ==
    [][\A t \in Trackers :
          TrackWritten(t) =>
              /\ \A d \in Days :
                     d <= today - (RetentionDays + 1) => analytics'.events[d] = <<>>
              /\ Range(analytics.events[today]) \subseteq Range(analytics'.events[today])]_vars

\* C19: after an event-tracking write the events mapping has entries for at
\* most 7 dates, all among the last 7 calendar days.
C19_SevenDaysOfEvents ==
    [][\A t \in Trackers :
          (TrackWritten(t) /\ tkind[t] = "event") =>
              LET dates == {d \in Days : analytics'.events[d] # <<>>}
              IN  /\ Cardinality(dates) <= RetentionDays
                  /\ \A d \in dates : d > today - RetentionDays]_vars

\* The characters of s are letters only: nothing to strip, escape or trim.
Plain(s) == s # Missing /\ s # <<>> /\ \A i \in DOMAIN s : s[i] \in {"r", "a", "b"}

\* The step is the completed writeFileSync of request r.
WriteDone(r) == pc[r] = "locked" /\ pc'[r] = "releasing" /\ err'[r] = "none"

\* C20: a valid lead submission handled with no concurrent request is
\* accepted, its write appends exactly one record behind the earlier records,
\* which keep their order; the record has type "lead", the submitted interest
\* ("general" when none is given), a timestamp and an id no earlier record
\* has; the response is a success.
C20_LeadAppended ==
    [][\A r \in Reqs :
          /\ (pc[r] = "idle" /\ body'[r] # NoBody /\ ~IsBlank(body'[r].name)
                 /\ body'[r].email = <<"J", "@", "X", ".", "c">>)
                => pc'[r] = "locking"
          /\ (WriteDone(r) /\ body[r] # NoBody) =>
                LET old == readData("leads")
                    new == disk'["leads"]
                    x == new[Len(new)]
                IN  /\ Len(new) = Len(old) + 1
                    /\ SubSeq(new, 1, Len(old)) = old
                    /\ x.type = "lead" /\ x.req = r
                    /\ Plain(body[r].interest) => x.interest = body[r].interest
                    /\ body[r].interest \in {Missing, <<>>} => x.interest = general
                    /\ x.timestamp = now
                    /\ \A i \in 1..Len(old) : old[i].id # x.id
          /\ (pc[r] = "releasing" /\ err[r] = "none" /\ pc'[r] # pc[r]) => status'[r] = 200]_vars

\* C21: every record in leads.json has type "lead", every record in
\* contacts.json type "contact" and every record in investors.json type
\* "investor", whatever type field the request body carries.
C21_TypeDiscriminator ==
    /\ \A i \in DOMAIN disk["leads"] : disk["leads"][i].type = "lead"
    /\ \A i \in DOMAIN disk["contacts"] : disk["contacts"][i].type = "contact"
    /\ \A i \in DOMAIN disk["investors"] : disk["investors"][i].type = "investor"

\* An investor inquiry whose body carried type "lead" is stored.
C21_Witness ==
    \E r \in Reqs :
        /\ pc[r] = "ok" /\ coll[r] = "investors"
        /\ body[r].type = <<"l", "e", "a", "d">>
        /\ \E i \in DOMAIN disk["investors"] : disk["investors"][i].req = r

\* The string is within its cap and has no raw <, >, " or '.
Clean(str, cap) ==
    /\ Len(str) <= cap
    /\ \A i \in DOMAIN str : str[i] \notin {"<", ">", "\"", "'"}

FailsValidation(c, b) ==
    \/ IsBlank(b.name)
    \/ b.email = Missing
    \/ ~isValidEmail(b.email)
    \/ c = "contacts" /\ IsBlank(b.message)

\* C25: a submission that fails validation is answered with status 400,
\* never acquires a lock and leaves every data file unchanged.
C25_InvalidRejected ==
    [][\A r \in Reqs :
          /\ (pc[r] = "idle" /\ pc'[r] # "idle" /\ FailsValidation(coll'[r], body'[r])) =>
                /\ status'[r] = 400
                /\ pc'[r] = "rejected"
                /\ UNCHANGED <<disk, torn, lockdir, analytics, alock>>
          /\ pc[r] = "rejected" => pc'[r] = "rejected" /\ status'[r] = 400]_vars

\* A contact submission with a name, an email and a blank message was
\* rejected after another submission had been stored.
C25_Witness ==
    \E r \in Reqs :
        /\ pc[r] = "rejected" /\ status[r] = 400 /\ coll[r] = "contacts"
        /\ ~IsBlank(body[r].name) /\ body[r].email = JoMail /\ body[r].message = <<" ", " ">>
        /\ Len(disk["leads"]) > 0

\* C23: reads are not gated by the lock: while a writer holds the lock of a
\* file, a readData of that file completes without waiting and returns the
\* current contents of the file.
C23_ReadsNotGated ==
    \A c \in Collections :
        lockdir[LockPath(c)] =>
            ENABLED (AdminList(c) /\ adminResp' = ListingResponse(disk[c]))

\* A listing was answered with the record a writer had just written, the
\* writer still holding the lock.
C23_Witness ==
    \E r \in Reqs :
        /\ pc[r] = "releasing" /\ err[r] = "none"
        /\ coll[r] = adminColl /\ lockdir[LockPath(adminColl)]
        /\ adminResp.count > 0 /\ adminResp.data = disk[adminColl]

\* C24: an admin endpoint returns stored data only if x-admin-key equals the
\* configured ADMIN_KEY, or if no ADMIN_KEY is configured and the server is
\* not in production; in production without ADMIN_KEY the answer is 500, with
\* a key configured and a missing or different header it is 401, both
\* without stored data.
C24_AdminDataNeedsKey ==
    areq # NoReq =>
        LET granted == \/ adminKey # NoKey /\ areq.header = adminKey
                       \/ adminKey = NoKey /\ ~isProduction
        IN  /\ ares.kind # "message" => granted
            /\ (isProduction /\ adminKey = NoKey) =>
                   ares.status = 500 /\ ares.kind = "message" /\ ares.data = <<>>
            /\ (adminKey # NoKey /\ areq.header # adminKey) =>
                   ares.status = 401 /\ ares.kind = "message" /\ ares.data = <<>>

\* GET /api/all with a wrong key was answered 401 while leads were stored.
C24_Witness ==
    /\ adminKey = "k1" /\ areq.header = "k2" /\ areq.endpoint = "all"
    /\ ares.status = 401
    /\ disk["leads"] # <<>>

\* C26: each POST endpoint that modifies a data file (/api/leads,
\* /api/contact, /api/investors, /api/analytics/event) answers a request
\* without a valid CSRF token with 403, and no data file is written for it.
C26_NoTokenRejected ==
    [][/\ \A r \in Reqs :
             /\ (pc[r] = "idle" /\ pc'[r] # "idle" /\ ~csrfValid.form[r])
                   => pc'[r] = "rejected" /\ status'[r] = 403
                        /\ disk' = disk /\ analytics' = analytics
             /\ (pc[r] = "locked" /\ pc'[r] # "locked") => csrfValid.form[r]
       /\ \A t \in Trackers :
             /\ (tpc[t] = "idle" /\ tkind'[t] = "event" /\ ~csrfValid.event[t])
                   => tpc'[t] = "idle" /\ tstatus'[t] = 403
                        /\ disk' = disk /\ analytics' = analytics
             /\ (tpc[t] = "locked" /\ tpc'[t] # "locked" /\ tkind[t] = "event")
                   => csrfValid.event[t]]_vars

\* The part of C26 about the three submission endpoints.
C26_FormsRejected ==
    [][\A r \in Reqs :
          /\ (pc[r] = "idle" /\ pc'[r] # "idle" /\ ~csrfValid.form[r])
                => pc'[r] = "rejected" /\ status'[r] = 403
                     /\ disk' = disk /\ analytics' = analytics
          /\ (pc[r] = "locked" /\ pc'[r] # "locked") => csrfValid.form[r]]_vars

\* C27: tracking a page view never changes the outcome of the page request:
\* the page is answered when the middleware passes the request on, while
\* trackPageView is still pending; a tracking that fails (lock retries
\* exhausted, write error) leaves that answer as it is, gives no error
\* response, holds no lock afterwards and leaves the server running with the
\* slot free for a later request.
C27_TrackingNeverFailsPage ==
    [][\A t \in Trackers :
          /\ (tpc[t] = "idle" /\ tkind'[t] = "view")
                => tstatus'[t] \in PageStatuses /\ tpc'[t] = "locking"
          /\ tkind[t] = "view" => tstatus'[t] = tstatus[t]
          /\ (tkind[t] = "view" /\ tkind'[t] # "view")
                => /\ tpc'[t] = "idle" /\ phase' = "running"
                   /\ (tpc[t] = "releasing" => ~alock')
                   /\ (tpc[t] = "locking" => alock' = alock)]_vars

\* The only operation so far was a page view answered 404; its tracking
\* failed and is over.
C27_Witness ==
    /\ AllIdle /\ clock = 1 /\ viewsDone = 0
    /\ \E t \in Trackers : tstatus[t] = 404

\* The step concludes the pending attempt of the form.
Concludes == fpc # "idle" /\ fpc' = "idle"

\* C28: in each client form the submit button is disabled from the submit
\* event until the attempt concludes; an attempt concludes either with the
\* form hidden and the success view shown, which happens on a success
\* response only, or with the button enabled again under its original label
\* and the form still shown; the button is never disabled while the form is
\* shown and no attempt is pending.
C28_ButtonFollowsAttempt ==
    [][/\ fpc' # "idle" => submitBtn'.disabled /\ formShown'
       /\ (fpc' = "idle" /\ formShown') => ~submitBtn'.disabled
       /\ Concludes =>
             \/ /\ fpc = "posting" /\ pc[freq] = "ok" /\ status[freq] = 200
                /\ ~formShown' /\ successShown'
             \/ /\ formShown' /\ ~successShown'
                /\ submitBtn' = [disabled |-> FALSE, text |-> SubmitLabel]
       /\ (Concludes /\ (fpc = "token" \/ status[freq] # 200)) => formShown']_vars

\* An attempt was answered 500 and has concluded: the form is shown and the
\* button enabled.
C28_Witness ==
    /\ fpc = "idle" /\ freq # 0 /\ status[freq] = 500
    /\ formShown /\ ~submitBtn.disabled

\* The step handles a response.
Responded == dtick' # dtick

\* The latest response answered a request the page made with the key it had
\* stored: fetchWithAuth, exportCSV, or init's validation of the kept key.
OfStoredKey(r) == r.kind \in {"all", "analytics", "export", "init"}

\* C29 as stated: the dashboard is visible only while a key is stored; logout
\* and any 401 response clear the key and show the login overlay; a key is
\* stored only after the server accepted it.
C29_AnyUnauthorizedLogsOut ==
    [][/\ dashShown' => storedKey' # NoKey
       /\ Logout => storedKey' = NoKey /\ overlayShown' /\ ~dashShown'
       /\ (Responded /\ dlast'.status = 401)
             => storedKey' = NoKey /\ overlayShown' /\ ~dashShown'
       /\ (storedKey' # storedKey /\ storedKey' # NoKey)
             => Responded /\ dlast'.key = storedKey' /\ dlast'.status = 200]_vars

\* C29, amended: the dashboard is visible only while a key is stored; logout
\* and a 401 response to a request made with the stored key clear the key
\* and show the login overlay; a 401 to the login form's validation of a
\* typed key changes neither the stored key nor what is displayed; a key is
\* stored only after the server accepted it.
C29_DashboardNeedsKey ==
    [][/\ dashShown => storedKey # NoKey
       /\ dashShown' => storedKey' # NoKey
       /\ Logout => storedKey' = NoKey /\ overlayShown' /\ ~dashShown'
       /\ (Responded /\ dlast'.status = 401 /\ OfStoredKey(dlast'))
             => storedKey' = NoKey /\ overlayShown' /\ ~dashShown'
       /\ (Responded /\ dlast'.status = 401 /\ dlast'.kind = "login")
             => UNCHANGED <<storedKey, overlayShown, dashShown>>
       /\ (storedKey' # storedKey /\ storedKey' # NoKey)
             => Responded /\ dlast'.key = storedKey' /\ dlast'.status = 200]_vars

\* A request of the dashboard was answered 401: no key is stored and the
\* login overlay is shown.
C29_Witness ==
    /\ dlast.kind \in {"all", "analytics", "export"} /\ dlast.status = 401
    /\ storedKey = NoKey /\ overlayShown /\ ~dashShown

\* C30: a key stored by a successful login is removed only by a logout or
\* when the server rejects a request made with that same key.
C30_NewerSessionSurvives ==
    [][(storedBy = "login" /\ storedKey' = NoKey)
          => \/ Logout
             \/ /\ Responded /\ dlast'.key = storedKey
                /\ dlast'.status \notin {200, Lost}]_vars

\* C31: in the app simulator loaded with autoplay=false, no timer ever moves
\* the demo from the splash screen to the login screen, whatever the user did
\* before, resetDemo included.
C31_NoSplashTimerWithoutAutoplay ==
    [][(~autoplay /\ currentScreen = "splash" /\ currentScreen' = "login")
          => cause' # "timer"]_vars

Riding == currentScreen = "dashboard" /\ activeRide

\* C32: in the app simulator the signal button and the ride panel are shown
\* exactly when the current screen is the dashboard and a ride is active;
\* otherwise both are hidden and the bottom panel is shown.
C32_RideControlsFollowRide ==
    /\ fabVisible = Riding
    /\ ridePanel = Riding
    /\ bottomPanel = ~Riding

\* A ride joined by the timer of joinRide shows the controls of the ride.
C32_Witness == Riding /\ cause = "timer" /\ fabVisible /\ ridePanel /\ ~bottomPanel

\* C33: after resetDemo and with no further user action the demo shows only
\* the splash screen and then the login screen, with no active ride and no
\* signal notification: timers started before the reset change none of them.
C33_QuietAfterReset ==
    quiet => /\ currentScreen \in {"splash", "login"}
             /\ ~activeRide
             /\ ~notifVisible

\* C34: at most one signal countdown runs at a time, the displayed countdown
\* stays within 0..10, and the notification is hidden at the latest by the
\* 10th countdown tick after the most recent simulateSignal.
C34_OneBoundedCountdown ==
    /\ Len(intervals) <= 1
    /\ countdownTime \in 0..CountdownStart
    /\ notifVisible => sinceSignal < CountdownStart

\* The 10th tick of a countdown has hidden the notification.
C34_Witness ==
    /\ cause = "tick"
    /\ sinceSignal = CountdownStart
    /\ countdownTime = 0
    /\ ~notifVisible
    /\ intervals = <<>>

\* C35: state.panelIndex stays within 0..2 and state.counterValue within
\* 2..50 under navigatePanel, adjustCounter and resetDemo, and a step that
\* would pass a bound leaves the value at that bound.
C35_PanelAndCounterClamped ==
    /\ [](panelIndex \in 0..PanelMax /\ counterValue \in CounterMin..CounterMax)
    /\ [][/\ \A direction \in Directions :
               (navigatePanel(direction) /\ panelIndex + direction \notin 0..PanelMax)
                   => panelIndex' = panelIndex
          /\ \A delta \in Deltas :
               (adjustCounter(delta) /\ counterValue + delta \notin CounterMin..CounterMax)
                   => counterValue' = counterValue]_vars

\* The last panel and the largest counter, reached one step at a time.
C35_Witness == panelIndex = PanelMax /\ counterValue = CounterMax

====
